---- MODULE Spec2Model ----
(***************************************************************************)
(* Webhooks-for-Tella browser extension: the extraction pipeline of        *)
(* content.js (TellaDataExtractor), the page-lifecycle tracker of          *)
(* content.js (initializeExtractor, handleUrlChange and the navigation     *)
(* channels) and the sidebar injector of sidebar-injector.js.              *)
(*                                                                         *)
(* Two specifications share the module:                                    *)
(*   SpecX  one run of extractAllData against every combination of         *)
(*          endpoint outcomes and page (DOM) states;                       *)
(*   Spec   the lifecycle: navigations, debounce timers, extractions in    *)
(*          flight, injector instances with their observers and timers,    *)
(*          and the host page re-rendering.                                *)
(* JavaScript strings are sequences of one-character strings, so that      *)
(* includes(), match() and trim() are computed and not tabulated.          *)
(***************************************************************************)
EXTENDS Integers, Sequences, FiniteSets, TLC

(***************************************************************************)
(* Strings                                                                 *)
(***************************************************************************)
Lower == {"a","b","c","d","e","f","g","h","i","j","k","l","m",
          "n","o","p","q","r","s","t","u","v","w","x","y","z"}
Upper == {"A","B","C","D","E","F","G","H","I","J","K","L","M",
          "N","O","P","Q","R","S","T","U","V","W","X","Y","Z"}
Digit == {"0","1","2","3","4","5","6","7","8","9"}
\* the character class [a-zA-Z0-9] of the story-id patterns
AlnumChars == Lower \cup Upper \cup Digit

\* s.startsWith(sub, p - 1): sub occurs in s at the 1-based position p
OccursAt(s, sub, p) ==
    /\ p >= 1
    /\ p + Len(sub) - 1 <= Len(s)
    /\ \A k \in 1..Len(sub) : s[p + k - 1] = sub[k]

\* String.prototype.includes
Includes(s, sub) == \E p \in 1..(Len(s) + 1) : OccursAt(s, sub, p)

\* length of the maximal run of [a-zA-Z0-9] characters of s starting at p
RECURSIVE AlnumRun(_, _)
AlnumRun(s, p) ==
    IF p <= Len(s) /\ s[p] \in AlnumChars THEN 1 + AlnumRun(s, p + 1) ELSE 0

SVideo      == <<"/","v","i","d","e","o","/">>
SView       == <<"/","v","i","e","w">>
SWatch      == <<"/","w","a","t","c","h","/">>
SRecordings == <<"/","r","e","c","o","r","d","i","n","g","s","/">>
SStories    == <<"/","s","t","o","r","i","e","s","/">>
Origin      == <<"h","t","t","p","s",":","/","/","w","w","w",".","t","e","l","l","a",".","t","v">>

(***************************************************************************)
(* JSON / JavaScript values: tagged records.                               *)
(***************************************************************************)
Undefined == [t |-> "undef"]
JNull     == [t |-> "null"]
JBool(b)  == [t |-> "bool", v |-> b]
JNum(n)   == [t |-> "num", v |-> n]
\* a number that is no integer: n / d with d > 1, n not a multiple of d
JFrac(n, d) == [t |-> "frac", n |-> n, d |-> d]
JStr(s)   == [t |-> "str", v |-> s]
JArr(a)   == [t |-> "arr", v |-> a]
JObj(f)   == [t |-> "obj", v |-> f]
EmptyObj  == JObj([k \in {} |-> Undefined])

\* JavaScript truthiness
Truthy(x) ==
    CASE x.t \in {"undef", "null"} -> FALSE
      [] x.t = "bool" -> x.v
      [] x.t = "num"  -> x.v # 0
      [] x.t = "str"  -> x.v # <<>>
      [] OTHER        -> TRUE

\* property read o[k] on a value that is neither null nor undefined
Get(o, k) == IF o.t = "obj" /\ k \in DOMAIN o.v THEN o.v[k] ELSE Undefined

\* a || b
Or(a, b) == IF Truthy(a) THEN a ELSE b

IsArray(x) == x.t = "arr"

\* the value a thrown TypeError is modelled by
Throw == [t |-> "throw"]
Threw(x) == x.t = "throw"

\* obj with key k set to x
Put(o, k, x) == JObj([j \in (DOMAIN o.v) \cup {k} |-> IF j = k THEN x ELSE o.v[j]])

(***************************************************************************)
(* URLs.  The state holds indices into UrlTable; every predicate on a URL  *)
(* is computed on the characters of the table entry.                       *)
(***************************************************************************)
UrlTable == <<
    Origin \o SVideo \o <<"a">> \o SView,           \* 1  /video/a/view
    Origin \o SVideo \o <<"b">> \o SView,           \* 2  /video/b/view
    Origin \o SVideo \o <<"c">>,                    \* 3  /video/c   (no /view)
    Origin \o <<"/","v","i","d","e","o","s">>,      \* 4  /videos    (listing)
    Origin \o SWatch \o <<"w">>,                    \* 5  /watch/w
    Origin \o SRecordings \o <<"r">> >>             \* 6  /recordings/r
UrlIds == 1..Len(UrlTable)
Href(u) == UrlTable[u]

\* One pattern of extractStoryId: prefix, one or more [a-zA-Z0-9] (greedy),
\* then, for the first pattern, the literal "/view".  A position matches iff
\* the maximal run is followed by the suffix: the suffix starts with "/",
\* which is outside the class, so backtracking finds no other split.
MatchAt(url, prefix, suffix, p) ==
    /\ OccursAt(url, prefix, p)
    /\ AlnumRun(url, p + Len(prefix)) >= 1
    /\ OccursAt(url, suffix, p + Len(prefix) + AlnumRun(url, p + Len(prefix)))
Matches(url, prefix, suffix) == \E p \in 1..Len(url) : MatchAt(url, prefix, suffix, p)
\* The capture of a pattern whose group has lost its +: one character
CaptureOneChar(url, prefix, suffix) ==
    LET p == CHOOSE q \in 1..Len(url) :
                 /\ MatchAt(url, prefix, suffix, q)
                 /\ \A r \in 1..(q - 1) : ~MatchAt(url, prefix, suffix, r)
        b == p + Len(prefix)
    IN  SubSeq(url, b, b)
Capture(url, prefix, suffix) ==
    LET p == CHOOSE q \in 1..Len(url) :
                 /\ MatchAt(url, prefix, suffix, q)
                 /\ \A r \in 1..(q - 1) : ~MatchAt(url, prefix, suffix, r)
        b == p + Len(prefix)
    IN  SubSeq(url, b, b + AlnumRun(url, b) - 1)

StoryIdPatterns == << <<SVideo, SView>>, <<SVideo, <<>> >>, <<SStories, <<>> >>, <<SWatch, <<>> >> >>

RECURSIVE FirstPattern(_, _)
FirstPattern(url, k) ==
    IF k > Len(StoryIdPatterns) THEN JNull
    ELSE IF Matches(url, StoryIdPatterns[k][1], StoryIdPatterns[k][2])
         THEN JStr(Capture(url, StoryIdPatterns[k][1], StoryIdPatterns[k][2]))
         ELSE FirstPattern(url, k + 1)

\* TellaDataExtractor.extractStoryId
extractStoryId(url) == FirstPattern(url, 1)

\* url.match(/\/video\/([a-zA-Z0-9]+)$/)
EndsWithVideoId(url) ==
    \E p \in 1..Len(url) :
        /\ OccursAt(url, SVideo, p)
        /\ AlnumRun(url, p + Len(SVideo)) >= 1
        /\ p + Len(SVideo) + AlnumRun(url, p + Len(SVideo)) = Len(url) + 1

\* TellaDataExtractor.detectRecordingPage; storyId is the value of
\* this.storyId at the time of the call
detectRecordingPage(url, storyId) ==
    \/ Includes(url, SWatch)
    \/ Includes(url, SRecordings)
    \/ (Includes(url, SVideo) /\ (Includes(url, SView) \/ EndsWithVideoId(url)))
    \/ storyId # JNull

\* The constructor calls detectRecordingPage before it assigns this.storyId,
\* so the comparison reads undefined.
NewExtractor(url) ==
    [isRecordingPage |-> detectRecordingPage(url, Undefined),
     storyId         |-> extractStoryId(url)]

\* shouldInitialize, and the same test inlined in initializeExtractor,
\* handleUrlChange and TellaSidebarInjector.init
shouldInitialize(url) ==
    \/ (Includes(url, SVideo) /\ Includes(url, SView))
    \/ Includes(url, SWatch)
    \/ Includes(url, SRecordings)

(***************************************************************************)
(* Schema normalizer (content.js, TellaDataExtractor)                      *)
(***************************************************************************)
DigitChars == <<"0","1","2","3","4","5","6","7","8","9">>

\* Number.prototype.toString for a natural number
RECURSIVE NumToStr(_)
NumToStr(n) == IF n < 10 THEN <<DigitChars[n + 1]>>
               ELSE NumToStr(n \div 10) \o <<DigitChars[(n % 10) + 1]>>

\* String.prototype.padStart(2, '0')
PadStart2(s) == IF Len(s) < 2 THEN <<"0">> \o s ELSE s

IsSpace(c) == c = " "

\* String.prototype.trim
RECURSIVE TrimLeft(_)
TrimLeft(s) == IF s # <<>> /\ IsSpace(Head(s)) THEN TrimLeft(Tail(s)) ELSE s
RECURSIVE TrimRight(_)
TrimRight(s) == IF s # <<>> /\ IsSpace(s[Len(s)]) THEN TrimRight(SubSeq(s, 1, Len(s) - 1)) ELSE s
Trim(s) == TrimRight(TrimLeft(s))

\* Array.prototype.join(' ') on an array of strings
RECURSIVE JoinSpace(_)
JoinSpace(a) == IF a = <<>> THEN <<>>
                ELSE IF Len(a) = 1 THEN a[1]
                ELSE a[1] \o <<" ">> \o JoinSpace(Tail(a))

\* parseFloat of a string: the value of its leading digits, NaN (Undefined
\* here) when it has none
RECURSIVE DigitsValue(_, _)
DigitsValue(s, acc) ==
    IF s # <<>> /\ Head(s) \in Digit
    THEN DigitsValue(Tail(s), 10 * acc + (CHOOSE d \in 0..9 : DigitChars[d + 1] = Head(s)))
    ELSE acc
ParseFloat(s) == IF s # <<>> /\ Head(s) \in Digit THEN JNum(DigitsValue(s, 0)) ELSE Undefined

\* The seconds/milliseconds threshold of formatDuration
MsThreshold == 10000

\* numerator and denominator of a number value
Numer(x) == IF x.t = "frac" THEN x.n ELSE x.v
Denom(x) == IF x.t = "frac" THEN x.d ELSE 1
IsNumber(x) == x.t \in {"num", "frac"}

\* formatDuration with the threshold test written >= instead of >
RECURSIVE formatDurationGe(_)
formatDurationGe(input) ==
    LET value == CASE IsNumber(input) -> input
                   [] input.t = "str" -> ParseFloat(input.v)
                   [] OTHER -> JNull
    IN  IF ~IsNumber(value) /\ Truthy(input) /\ input.t = "obj" /\ Truthy(Get(input, "duration"))
        THEN formatDurationGe(Get(input, "duration"))
        ELSE IF ~IsNumber(value) \/ Numer(value) <= 0 THEN JNull
        ELSE IF Numer(value) >= MsThreshold * Denom(value)
             THEN JNum(Numer(value) \div (1000 * Denom(value)))
        ELSE JNum(Numer(value) \div Denom(value))

\* TellaDataExtractor.formatDuration; Math.floor(n / d) is n \div d
RECURSIVE formatDuration(_)
formatDuration(input) ==
    LET value == CASE IsNumber(input) -> input
                   [] input.t = "str" -> ParseFloat(input.v)
                   [] OTHER -> JNull
    IN  IF ~IsNumber(value) /\ Truthy(input) /\ input.t = "obj" /\ Truthy(Get(input, "duration"))
        THEN formatDuration(Get(input, "duration"))
        ELSE IF ~IsNumber(value) \/ Numer(value) <= 0 THEN JNull
        ELSE IF Numer(value) > MsThreshold * Denom(value)
             THEN JNum(Numer(value) \div (1000 * Denom(value)))
        ELSE JNum(Numer(value) \div Denom(value))

\* TellaDataExtractor.formatTimestamp
formatTimestamp(seconds) ==
    IF seconds.t # "num" THEN JStr(<<"0", ":", "0", "0">>)
    ELSE JStr(NumToStr(seconds.v \div 60) \o <<":">> \o PadStart2(NumToStr(seconds.v % 60)))

\* One element of the map of parseChapters; chapter.id throws on null
ChapterEntry(chapter) ==
    IF chapter.t \in {"null", "undef"} THEN Throw
    ELSE JObj([id                 |-> Or(Get(chapter, "id"), JNull),
               timestamp          |-> Or(Get(chapter, "timestamp"), JNum(0)),
               timestampFormatted |-> formatTimestamp(Or(Get(chapter, "timestamp"), JNum(0))),
               title              |-> Or(Get(chapter, "title"), JStr(<<>>)),
               description        |-> Or(Get(chapter, "description"), JStr(<<>>))])

\* TellaDataExtractor.parseChapters
parseChapters(chapters) ==
    IF ~Truthy(chapters) \/ ~IsArray(chapters) \/ Len(chapters.v) = 0 THEN JArr(<<>>)
    ELSE IF \E i \in 1..Len(chapters.v) : Threw(ChapterEntry(chapters.v[i])) THEN Throw
    ELSE JArr([i \in 1..Len(chapters.v) |-> ChapterEntry(chapters.v[i])])

\* the filter callback of formatTranscriptFromWords: !word.hidden && word.text
WordVisible(word) == ~Truthy(Get(word, "hidden")) /\ Truthy(Get(word, "text"))

\* TellaDataExtractor.formatTranscriptFromWords; word.hidden throws on a null
\* word, word.text.trim() on a text that is no string
formatTranscriptFromWords(words) ==
    IF ~Truthy(words) \/ ~IsArray(words) THEN JStr(<<>>)
    ELSE IF \E i \in 1..Len(words.v) : words.v[i].t \in {"null", "undef"} THEN Throw
    ELSE LET visible == SelectSeq(words.v, WordVisible)
         IN  IF \E i \in 1..Len(visible) : Get(visible[i], "text").t # "str" THEN Throw
             ELSE LET trimmed  == [i \in 1..Len(visible) |-> Trim(Get(visible[i], "text").v)]
                      nonEmpty == SelectSeq(trimmed, LAMBDA x : Len(x) > 0)
                  IN  JStr(JoinSpace(nonEmpty))

\* TellaDataExtractor.calculateTranscriptDuration (reads the field end_)
calculateTranscriptDuration(words) ==
    IF ~Truthy(words) \/ Len(words.v) = 0 THEN JNum(0)
    ELSE IF words.v[Len(words.v)].t \in {"null", "undef"} THEN Throw
    ELSE Or(Get(words.v[Len(words.v)], "end_"), JNum(0))

\* The words location of parseTranscriptionData: the flat `words`, else
\* transcriptions[1][0].words, whose read throws when transcriptions[1][0] is null
LocateWords(td) ==
    LET flat == Get(td, "words")
        trs  == Get(td, "transcriptions")
    IN  IF Truthy(flat) /\ IsArray(flat) THEN flat
        ELSE IF Truthy(trs) /\ IsArray(trs) /\ Len(trs.v) > 1
             THEN LET details == trs.v[2]
                  IN  IF IsArray(details) /\ Len(details.v) > 0
                      THEN IF details.v[1].t \in {"null", "undef"} THEN Throw
                           ELSE Get(details.v[1], "words")
                      ELSE JNull
             ELSE JNull

\* The transcription metadata part of parseTranscriptionData
TranscriptionMeta(td) ==
    LET trs == Get(td, "transcriptions")
        r0  == EmptyObj
        r1  == IF Truthy(trs) THEN Put(r0, "transcriptionMetadata", trs) ELSE r0
    IN  IF Truthy(trs) /\ IsArray(trs) /\ Len(trs.v) > 1
        THEN Put(Put(r1, "transcriptionStatus", Or(trs.v[1], JStr(<<"U","n","k","n","o","w","n">>))),
                 "transcriptionDetails", Or(trs.v[2], JArr(<<>>)))
        ELSE r1

\* TellaDataExtractor.parseTranscriptionData
parseTranscriptionData(td) ==
    IF ~Truthy(td) THEN EmptyObj
    ELSE LET words == LocateWords(td)
             meta  == TranscriptionMeta(td)
         IN  IF Threw(words) THEN Throw
             ELSE IF Truthy(words) /\ IsArray(words)
             THEN LET text == formatTranscriptFromWords(words)
                      dur  == calculateTranscriptDuration(words)
                  IN  IF Threw(text) \/ Threw(dur) THEN Throw
                      ELSE Put(Put(Put(Put(meta, "transcriptionWords", words),
                                       "transcript", text),
                                   "transcriptWordCount", JNum(Len(words.v))),
                               "transcriptDurationMs", dur)
             ELSE meta

\* cleanObject testing for emptiness before it has cleaned the nested object
RECURSIVE cleanObjectEarlyTest(_)
cleanObjectEarlyTest(obj) ==
    LET cleaned(k) == IF obj.v[k].t = "obj" THEN cleanObjectEarlyTest(obj.v[k]) ELSE obj.v[k]
        keep == {k \in DOMAIN obj.v :
                    /\ obj.v[k].t \notin {"null", "undef"}
                    /\ (obj.v[k].t = "obj" => DOMAIN (obj.v[k].v) # {})}
    IN  JObj([k \in keep |-> cleaned(k)])

\* cleanObject of parseDocumentData: deletes null/undefined keys, recurses
\* into plain objects (not arrays) and deletes those left empty
RECURSIVE cleanObject(_)
cleanObject(obj) ==
    LET cleaned(k) == IF obj.v[k].t = "obj" THEN cleanObject(obj.v[k]) ELSE obj.v[k]
        keep == {k \in DOMAIN obj.v :
                    /\ obj.v[k].t \notin {"null", "undef"}
                    /\ (obj.v[k].t = "obj" => DOMAIN (cleaned(k).v) # {})}
    IN  JObj([k \in keep |-> cleaned(k)])

\* chrome.runtime.getManifest().version
ExtensionVersion == JStr(<<"1", ".", "1", ".", "0">>)

\* TellaDataExtractor.parseDocumentData; now stands for new Date().toISOString()
parseDocumentData(data, transcriptionData, storyId, href, now) ==
    LET transcriptionInfo == parseTranscriptionData(transcriptionData)
        story    == Or(Get(data, "story"), data)
        chapters == parseChapters(Get(story, "chapters"))
    IN  IF Threw(transcriptionInfo) \/ Threw(chapters) THEN Throw
        ELSE cleanObject(JObj([
            video |-> JObj([id          |-> Or(Get(story, "id"), storyId),
                            title       |-> Or(Get(story, "name"), JNull),
                            description |-> Or(Get(story, "description"), JStr(<<>>)),
                            url         |-> Or(Get(story, "url"), JStr(href)),
                            dimensions  |-> Or(Get(story, "dimensions"), JNull),
                            views       |-> Or(Get(story, "views"), JNum(0)),
                            slug        |-> Or(Get(story, "slug"), JNull),
                            channelIDs  |-> Or(Get(story, "channelIDs"), JNull)]),
            timing |-> JObj([duration   |-> formatDuration(Get(story, "duration")),
                             durationMs |-> Or(Get(story, "duration"), JNull),
                             createdAt  |-> Or(Get(story, "createdAt"), JNull),
                             updatedAt  |-> Or(Get(story, "updatedAt"), JNull),
                             lastSeen   |-> Or(Get(story, "lastSeen"), JNull)]),
            content |-> JObj([chapters      |-> chapters,
                              transcription |-> transcriptionInfo]),
            metadata |-> JObj([extractedAt      |-> JNum(now),
                               pageUrl          |-> JStr(href),
                               extractionMethod |-> JStr(<<"a","p","i">>),
                               extensionVersion |-> ExtensionVersion])]))

(***************************************************************************)
(* Endpoint responses and page states one extraction run is checked on     *)
(***************************************************************************)
SHello  == <<"H","e","l","l","o">>
SSecret == <<"s","e","c","r","e","t">>
SWorld  == <<" ","w","o","r","l","d"," ">>
Word(text, hidden, end) == JObj([text |-> JStr(text), hidden |-> JBool(hidden), end_ |-> JNum(end)])
SampleWords == JArr(<< Word(SHello, FALSE, 400), Word(SSecret, TRUE, 800), Word(SWorld, FALSE, 1200) >>)

\* JSON bodies of the document endpoint
DocBodies == {
    JObj([story |-> JObj([id |-> JStr(<<"a","b","c">>), name |-> JStr(<<"D","e","m","o">>),
                          duration |-> JNum(125000), views |-> JNum(42),
                          chapters |-> JArr(<< JObj([timestamp |-> JNum(10),
                                                     title |-> JStr(<<"I","n","t","r","o">>)]) >>)])]),
    JObj([id |-> JStr(<<"a","b","c">>), duration |-> JNum(45), views |-> JNum(0)]),
    EmptyObj,
    JObj([story |-> JObj([chapters |-> JArr(<< JNull >>)])]),
    JNull }

\* JSON bodies of the transcriptions endpoint
TrBodies == {
    JObj([words |-> SampleWords]),
    JObj([transcriptions |-> JArr(<< JStr(<<"o","k">>), JArr(<< JObj([words |-> SampleWords]) >>) >>)]),
    JObj([transcriptions |-> JArr(<< JStr(<<"o","k">>), JArr(<< JNull >>) >>)]),
    JObj([transcriptions |-> JArr(<< JStr(<<"o","k">>) >>)]),
    EmptyObj,
    JNull }

FailKinds == {"non2xx", "neterr", "badjson"}
Outcomes(bodies) == [kind : {"ok"}, body : bodies] \cup [kind : FailKinds, body : {JNull}]

\* a fetch that answers a failure with an empty object
FetchJsonLenient(outcome) == IF outcome.kind = "ok" THEN outcome.body ELSE EmptyObj

\* fetchDocumentData / fetchTranscriptionData: the parsed body of a 2xx
\* response, null for a non-2xx status, a network error or unparsable JSON
FetchJson(outcome) == IF outcome.kind = "ok" THEN outcome.body ELSE JNull

\* What the selector cascades of the DOM extractors find on the page
TranscriptKinds == {"none", "clean", "collapsedSync", "collapsedAsync", "loading", "raw"}
DateKinds == {"none", "relative", "timeValid", "timeInvalid", "metaValid", "metaInvalid"}
DomStates == [title : BOOLEAN, transcript : TranscriptKinds \ {"loading"},
              date : DateKinds, rich : BOOLEAN]

SDomText == <<"s","c","r","a","p","e","d">>
SRawText == <<"r","a","w">>

\* TellaDataExtractor.extractTitle
extractTitle(dom) == IF dom.title THEN JStr(<<"T">>) ELSE JNull

\* TellaDataExtractor.extractCleanTranscript
extractCleanTranscript(dom) == IF dom.transcript = "clean" THEN JStr(SDomText) ELSE JNull

\* TellaDataExtractor.expandTranscriptIfNeeded: the page after toggle.click();
\* the host shows the transcript at once or after a render of its own
expandTranscriptIfNeeded(dom) ==
    CASE dom.transcript = "collapsedSync"  -> [dom EXCEPT !.transcript = "clean"]
      [] dom.transcript = "collapsedAsync" -> [dom EXCEPT !.transcript = "loading"]
      [] OTHER -> dom

\* TellaDataExtractor.parseRawTranscriptData
parseRawTranscriptData(dom) == IF dom.transcript = "raw" THEN JStr(SRawText) ELSE JNull

\* TellaDataExtractor.extractTranscript: the transcript it returns
extractTranscript(dom) ==
    LET first  == extractCleanTranscript(dom)
        second == IF Truthy(first) THEN first
                  ELSE extractCleanTranscript(expandTranscriptIfNeeded(dom))
    IN  IF Truthy(second) THEN second ELSE parseRawTranscriptData(dom)

\* TellaDataExtractor.extractTranscript: the page it leaves behind
DomAfterTranscript(dom) ==
    IF Truthy(extractCleanTranscript(dom)) THEN dom ELSE expandTranscriptIfNeeded(dom)

\* TellaDataExtractor.extractCreatedDate: new Date(x).toISOString() throws a
\* RangeError on an unparsable datetime attribute or meta content
extractCreatedDate(dom) ==
    CASE dom.date = "none" -> JNull
      [] dom.date \in {"timeInvalid", "metaInvalid"} -> Throw
      [] OTHER -> JStr(<<"2","0","2","5">>)

\* extractChapters, extractPlaylist, extractDuration, extractDescription
extractOptional(dom, text) == IF dom.rich THEN JStr(text) ELSE JNull

SDom == <<"d","o","m">>

\* The object literal of the DOM branch of extractAllData, its properties
\* evaluated in source order, then the removal of its null values
DomRecord(dom, href, now) ==
    IF Threw(extractCreatedDate(dom)) THEN Throw
    ELSE LET lit == [title            |-> extractTitle(dom),
                     transcript       |-> extractTranscript(dom),
                     chapters         |-> extractOptional(dom, <<"c">>),
                     createdDate      |-> extractCreatedDate(dom),
                     playlist         |-> extractOptional(dom, <<"p">>),
                     duration         |-> extractOptional(dom, <<"1",":","0","0">>),
                     views            |-> JNum(0),
                     videoUrl         |-> JStr(href),
                     description      |-> extractOptional(dom, <<"d">>),
                     extractedAt      |-> JNum(now),
                     pageUrl          |-> JStr(href),
                     extractionMethod |-> JStr(SDom)]
             keep == {k \in DOMAIN lit : lit[k].t \notin {"null", "undef"}}
         IN  JObj([k \in keep |-> lit[k]])

\* The API branch of extractAllData: this.data.transcript is read at the top
\* level of the record, and the DOM transcript, when found, is stored there
\* together with a top-level extractionMethod
ApiRecord(apiData, dom) ==
    IF ~Truthy(Get(apiData, "transcript")) /\ Truthy(extractTranscript(dom))
    THEN Put(Put(apiData, "transcript", extractTranscript(dom)),
             "extractionMethod", JStr(<<"a","p","i","+","d","o","m">>))
    ELSE apiData

(***************************************************************************)
(* Bounds of the model                                                     *)
(***************************************************************************)
\* client-side navigations in one behaviour
MaxNavs == 2
\* host re-renders in one behaviour
MaxHost == 2
\* popup requests and tab clicks in one behaviour
MaxUser == 2
\* injector instances ever created, extraction runs in flight at once,
\* injected element pairs ever created
MaxInj == 2
MaxRuns == 2
MaxEl == 2
\* environment events (navigations, host renders, user actions) in one run
MaxEvents == 2
\* retries that find the page not ready (no content, no sidebar) in a row
MaxStalls == 2
\* the URLs the page can be navigated to (indices of UrlTable)
NavUrls == {1, 2, 3}
\* the URLs the page can be loaded on: a video page, a /video/ page without
\* /view, a /recordings/ page (a load on /video/b/view is a load on
\* /video/a/view with the two ids exchanged)
LoadUrls == {1, 3, 6}

VARIABLES
    \* ---- one run of extractAllData (SpecX)
    xHref,          \* window.location.href (index of UrlTable)
    xExt,           \* the TellaDataExtractor: isRecordingPage, storyId
    xDocOut,        \* what the document endpoint answers
    xTrOut,         \* what the transcriptions endpoint answers
    xDom,           \* what the page shows to the DOM extractors
    xpc,            \* where the run is
    xDocData,       \* documentData of extractFromAPI
    xApi,           \* the value extractFromAPI resolved with
    xData,          \* this.data
    xResult,        \* how the promise of extractAllData settled
    xGets,          \* the GET requests this call has issued, in order
    xRun,           \* which call of extractAllData on this page this is
    xFirst,         \* how the promise of the call before this one settled
    \* ---- the page lifecycle (Spec)
    loaded,                     \* the load-time initialization has run
    firstUrl,                   \* the URL the page was loaded on
    href,                       \* window.location.href (index of UrlTable)
    navs, hostMuts, userActs,   \* environment events so far
    lastUrl,                    \* content.js lastUrl
    urlChangeTimeout,           \* -1: none; 0: reads location.href; u: captured url
    initializationInProgress,
    tryTimers,                  \* pending tryInitialize timers: their retryCount
    resetTimers,                \* pending timers that clear initializationInProgress
    extractor,                  \* <<>> or <<the extractor>>
    tellaExtractor,             \* window.tellaExtractor
    sidebarInjector,            \* 0 or the injector instance
    webhookInterface,           \* the TellaSidebarWebhook exists
    tabListener,                \* document listens for webhookTabActivated
    tellaExtractedData,         \* window.tellaExtractedData: <<>> or <<record>>
    runs,                       \* extractAllData calls in flight, oldest first
    indicators,                 \* tella-webhook-indicator elements in the page
    inj, nextInj,               \* the TellaSidebarInjector instances
    sidebar,                    \* the host's sidebar (Chapters tab) is rendered
    tabs, panels, nextEl,       \* injected tabs / panels in the document
    \* ---- one call of a pure function of the normalizer (SpecF)
    fOp,            \* the function called
    fIn,            \* its argument
    fOut,           \* the value it returned
    fpc,            \* "in": called, "out": returned
    \* ---- one message to the background script (SpecW)
    wReq,           \* the message: action, data
    wNet,           \* what the POST to the webhook URL comes to
    wpc,            \* where the handler is
    wPosts,         \* POST requests issued
    wThrown,        \* message of the error caught by handleSendToWebhook
    wPromise,       \* how the promise of handleSendToWebhook settled
    wResponses,     \* the sendResponse calls, in order
    \* ---- the webhook panel of the sidebar (SpecS)
    sStore,         \* chrome.storage.local: webhookUrl, webhookConfig
    sUrl,           \* this.webhookUrl (<<>>: null)
    sData,          \* this.extractedData
    spc,            \* where the panel is
    sLoads,         \* calls of loadWebhookUrl so far
    sSaves,         \* calls of saveWebhookUrl so far
    sSent,          \* the messages handed to chrome.runtime.sendMessage
    sTimer,         \* the timeout of sendRuntimeMessage
    sCallback,      \* the response callback of sendRuntimeMessage
    sResolved,      \* the flag resolved of sendRuntimeMessage
    sPromise,       \* how the promise of sendRuntimeMessage settled
    sSettles,       \* calls of resolve / reject of that promise
    sShown,         \* what the panel last told the user
    \* ---- the retry loop of one injector (SpecR)
    rM,             \* the page and the injector (a machine record)
    rTries,         \* detection attempts of the current findAndInjectSidebar run
    rPops,          \* popstate navigations so far
    \* ---- the navigation channels of content.js (SpecU)
    uM,             \* the page and the content script (a machine record)
    uTimers,        \* the pending setTimeout(handleUrlChange) timers: [id, url]
    uTimeoutId,     \* urlChangeTimeout: the id of the last timer set, 0: null
    uSignals,       \* navigation signals so far
    uBurst,         \* signals since location.href last changed
    uFires,         \* timer firings since location.href last changed
    uActs,          \* firings since then in which handleUrlChange acted
    \* ---- the DOM duration extractor (SpecD)
    dPage,          \* what the page shows: [duration, els]
    dStack,         \* the call stack: frames of extractChaptersFromTimestamps,
                    \* extractDuration and isVideoDuration, the running one last
    dRet,           \* what extractDuration returned last (0: null)
    dAns,           \* what isVideoDuration returned last
    dOut            \* "idle", "running", "returned" or "RangeError"

xvars == <<xHref, xExt, xDocOut, xTrOut, xDom, xpc, xDocData, xApi, xData, xResult, xGets,
           xRun, xFirst>>
lvars == <<loaded, firstUrl, href, navs, hostMuts, userActs, lastUrl, urlChangeTimeout,
           initializationInProgress, tryTimers, resetTimers, extractor, tellaExtractor,
           sidebarInjector, webhookInterface, tabListener, tellaExtractedData, runs,
           indicators, inj, nextInj, sidebar, tabs, panels, nextEl>>
fvars == <<fOp, fIn, fOut, fpc>>
wvars == <<wReq, wNet, wpc, wPosts, wThrown, wPromise, wResponses>>
svars == <<sStore, sUrl, sData, spc, sLoads, sSaves, sSent, sTimer, sCallback, sResolved,
           sPromise, sSettles, sShown>>
rvars == <<rM, rTries, rPops>>
uvars == <<uM, uTimers, uTimeoutId, uSignals, uBurst, uFires, uActs>>
dvars == <<dPage, dStack, dRet, dAns, dOut>>
vars == <<xvars, lvars, fvars, wvars, svars, rvars, uvars, dvars>>

(***************************************************************************)
(* The lifecycle procedures.  A handler is a sequence of calls, so each    *)
(* procedure maps a machine record M (the lifecycle variables, and the     *)
(* transient fields ret, mutAny, overflow) to the machine after the call.  *)
(***************************************************************************)
\* this.maxAttempts of TellaSidebarInjector, maxRetries of handleUrlChange
maxAttempts == 10
maxRetries == 10

Min(S) == CHOOSE x \in S : \A y \in S : x <= y

\* A TellaSidebarInjector that has not been constructed
NoInjector ==
    [alive |-> FALSE, destroyed |-> FALSE,
     webhookTab |-> 0, webhookPanel |-> 0, sidebarContainer |-> FALSE,
     isInjecting |-> FALSE, injectionAttempts |-> 0,
     loop |-> "idle",            \* "waiting": suspended in delay(retryDelay)
     fromInit |-> FALSE,         \* init() awaits the running findAndInjectSidebar
     lastObservedUrl |-> 0,
     navObserver |-> FALSE,      \* the body observer of setupNavigationObserver
     popstate |-> FALSE,         \* the popstate listener of setupNavigationObserver
     structRef |-> FALSE,        \* this.structureObserver / this.tabStateObserver set
     structLive |-> 0,           \* connected structure / tab-state observer pairs
     tabObs |-> 0,               \* connected webhook-tab / native-tab observers
     structureChangeTimeout |-> FALSE, reinjectTimeout |-> FALSE,
     sched |-> 0,                \* pending setTimeout(() => findAndInjectSidebar())
     made |-> {}]                \* the elements this instance created

\* the constructor of TellaSidebarInjector
NewInjector == [NoInjector EXCEPT !.alive = TRUE]

\* The machine record of the current state
Cur ==
    [loaded |-> loaded, firstUrl |-> firstUrl, href |-> href, navs |-> navs, hostMuts |-> hostMuts,
     userActs |-> userActs, lastUrl |-> lastUrl, urlChangeTimeout |-> urlChangeTimeout,
     initializationInProgress |-> initializationInProgress, tryTimers |-> tryTimers,
     resetTimers |-> resetTimers, extractor |-> extractor, tellaExtractor |-> tellaExtractor,
     sidebarInjector |-> sidebarInjector, webhookInterface |-> webhookInterface,
     tabListener |-> tabListener, tellaExtractedData |-> tellaExtractedData,
     runs |-> runs, indicators |-> indicators,
     inj |-> inj, nextInj |-> nextInj, sidebar |-> sidebar, tabs |-> tabs,
     panels |-> panels, nextEl |-> nextEl,
     ret |-> FALSE, mutAny |-> FALSE, overflow |-> FALSE]

\* A childList mutation of the page: the structure observers (body, subtree)
\* call handleStructureChange when nodes were added, the navigation observers
\* (children of body only) restart their debounce timer on any record.
Mutate(M, added, body) ==
    [M EXCEPT !.mutAny = TRUE,
              !.inj = [i \in DOMAIN M.inj |-> [M.inj[i] EXCEPT
                          !.structureChangeTimeout = @ \/ (added /\ M.inj[i].structLive > 0),
                          !.reinjectTimeout = @ \/ (body /\ M.inj[i].navObserver)]]]

\* document.getElementById: the first element with the id
ExistingTab(M) == IF M.tabs = {} THEN 0 ELSE Min(M.tabs)
ExistingPanel(M) == IF M.panels = {} THEN 0 ELSE Min(M.panels)

\* TellaSidebarInjector.setupNavigationObserver
setupNavigationObserver(M, i) ==
    [M EXCEPT !.inj[i].lastObservedUrl = M.href,
              !.inj[i].navObserver = TRUE,
              !.inj[i].popstate = TRUE]

\* What follows `await this.findAndInjectSidebar()` in init(), and
\* `await sidebarInjector.init()` in initializeSidebarInjection
InitContinuation(M, i) ==
    IF ~M.inj[i].fromInit THEN M
    ELSE LET M1 == [M EXCEPT !.inj[i].fromInit = FALSE]
         IN  IF M.ret THEN [setupNavigationObserver(M1, i) EXCEPT !.tabListener = TRUE]
             ELSE M1

\* Adopting the tab (and panel) already in the document
AdoptExisting(M, i) ==
    [M EXCEPT !.inj[i].webhookTab = ExistingTab(M),
              !.inj[i].webhookPanel = IF M.panels # {} THEN ExistingPanel(M) ELSE @,
              !.ret = TRUE]

\* TellaSidebarInjector.injectWebhookTab on a detected sidebar, with
\* setupTabClickHandler (setupReactStateObserver, setupWebhookTabObserver)
injectWebhookTab(M, i) ==
    IF M.tabs # {} THEN AdoptExisting(M, i)
    ELSE IF M.nextEl > MaxEl THEN [M EXCEPT !.overflow = TRUE]
    ELSE LET k  == M.nextEl
             M1 == Mutate([M EXCEPT !.tabs = @ \cup {k}, !.panels = @ \cup {k},
                                    !.nextEl = @ + 1], TRUE, FALSE)
         IN  [M1 EXCEPT !.inj[i].webhookTab = k,
                        !.inj[i].webhookPanel = k,
                        !.inj[i].made = @ \cup {k},
                        !.inj[i].structRef = TRUE,
                        !.inj[i].structLive = @ + 1,
                        !.inj[i].tabObs = @ + 1,
                        !.ret = TRUE]

\* One pass of the while loop of findAndInjectSidebar, from its condition to
\* the next await of delay() or to the return
LoopIteration(M, i) ==
    LET a == M.inj[i].injectionAttempts
        exit(N, r) == InitContinuation([N EXCEPT !.inj[i].isInjecting = FALSE,
                                                 !.inj[i].loop = "idle",
                                                 !.ret = r], i)
    IN  IF a >= maxAttempts THEN exit(M, FALSE)
        ELSE LET M1 == [M EXCEPT !.inj[i].injectionAttempts = a + 1]
             IN  IF M.sidebar
                 THEN LET M2 == injectWebhookTab(M1, i)
                      IN  exit([M2 EXCEPT !.inj[i].sidebarContainer = TRUE], TRUE)
                 ELSE IF a + 1 < maxAttempts
                      THEN [M1 EXCEPT !.inj[i].loop = "waiting"]
                      ELSE exit(M1, FALSE)

\* TellaSidebarInjector.findAndInjectSidebar, up to its first delay()
findAndInjectSidebar(M, i, fromInit) ==
    LET M0 == [M EXCEPT !.inj[i].fromInit = @ \/ fromInit]
    IN  IF M.inj[i].isInjecting THEN [M EXCEPT !.ret = FALSE]
        ELSE IF M.tabs # {} THEN InitContinuation(AdoptExisting(M0, i), i)
        ELSE LoopIteration([M0 EXCEPT !.inj[i].isInjecting = TRUE], i)

\* TellaSidebarInjector.destroy
destroy(M, i) ==
    LET r  == M.inj[i]
        rt == IF r.webhookTab # 0 THEN {r.webhookTab} \cap M.tabs ELSE {}
        rp == IF r.webhookPanel # 0 THEN {r.webhookPanel} \cap M.panels ELSE {}
        M1 == [M EXCEPT !.tabs = @ \ rt, !.panels = @ \ rp]
        M2 == IF rt \cup rp # {} THEN Mutate(M1, FALSE, FALSE) ELSE M1
    IN  [M2 EXCEPT !.inj[i].structLive = IF r.structRef THEN @ - 1 ELSE @,
                   !.inj[i].structRef = FALSE,
                   !.inj[i].structureChangeTimeout = FALSE,
                   !.inj[i].sidebarContainer = FALSE,
                   !.inj[i].webhookTab = 0,
                   !.inj[i].webhookPanel = 0,
                   !.inj[i].destroyed = TRUE]

\* A re-injection is scheduled: setTimeout(() => this.findAndInjectSidebar(), ...)
\* after the attempts and the references are reset
ScheduleReinject(M, i) ==
    [M EXCEPT !.inj[i].injectionAttempts = 0,
              !.inj[i].webhookTab = 0,
              !.inj[i].webhookPanel = 0,
              !.inj[i].sched = @ + 1]

\* The timer callback of handleStructureChange
handleStructureChange(M, i) ==
    LET r  == M.inj[i]
        M1 == [M EXCEPT !.inj[i].structureChangeTimeout = FALSE]
    IN  IF r.webhookTab # 0 /\ ExistingTab(M) = 0
        THEN ScheduleReinject(M1, i)
        ELSE IF ExistingTab(M) # 0 /\ ExistingTab(M) # r.webhookTab
             THEN [M1 EXCEPT !.inj[i].webhookTab = ExistingTab(M)]
             ELSE M1

\* wasVideoPage of the navigation observer: /video/ and /view only
WasVideoView(url) == Includes(url, SVideo) /\ Includes(url, SView)

\* The debounced callback of the body observer of setupNavigationObserver
reinjectCallback(M, i) ==
    LET r       == M.inj[i]
        M1      == [M EXCEPT !.inj[i].reinjectTimeout = FALSE]
        missing == M.tabs = {} /\ r.webhookTab # 0
        changed == r.lastObservedUrl # 0 /\ r.lastObservedUrl # M.href
        between == changed /\ WasVideoView(Href(r.lastObservedUrl))
        M2      == IF changed THEN [M1 EXCEPT !.inj[i].lastObservedUrl = M.href] ELSE M1
    IN  IF ~shouldInitialize(Href(M.href)) THEN M1
        ELSE IF (missing \/ between) /\ ~r.isInjecting
             THEN ScheduleReinject(M2, i)
             ELSE M2

\* The popstate listener of setupNavigationObserver
popstateListener(M, i) ==
    LET r == M.inj[i]
    IN  IF r.popstate /\ r.lastObservedUrl # M.href
        THEN ScheduleReinject([M EXCEPT !.inj[i].lastObservedUrl = M.href], i)
        ELSE M

RECURSIVE PopstateAll(_, _)
PopstateAll(M, i) == IF i > MaxInj THEN M ELSE PopstateAll(popstateListener(M, i), i + 1)

\* extractor.extractAllData() is called: a run is in flight until its promise
\* settles.  It remembers the extractor's story id and the page it started on.
StartRun(M, ex, src) ==
    IF Len(M.runs) >= MaxRuns THEN [M EXCEPT !.overflow = TRUE]
    ELSE [M EXCEPT !.runs = Append(@, [sid |-> ex.storyId, src |-> src, u |-> M.href])]

\* initializeSidebarInjection, with TellaSidebarInjector.init
initializeSidebarInjection(M) ==
    IF M.sidebarInjector # 0 THEN M
    ELSE IF M.nextInj > MaxInj THEN [M EXCEPT !.overflow = TRUE]
    ELSE LET i  == M.nextInj
             M1 == [M EXCEPT !.inj[i] = NewInjector, !.nextInj = @ + 1,
                             !.sidebarInjector = i]
         IN  IF ~shouldInitialize(Href(M.href)) THEN M1
             ELSE findAndInjectSidebar(M1, i, TRUE)

\* addExtensionIndicator: the element is appended to body
addExtensionIndicator(M) ==
    Mutate([M EXCEPT !.indicators = @ + 1], TRUE, TRUE)

\* initializeExtractor.  initializeSidebarInjection is async: its awaits
\* (init, findAndInjectSidebar, detectSidebar) resume once the synchronous
\* rest of initializeExtractor has run, so the indicator is in the page
\* before the new instance observes anything.
initializeExtractor(M) ==
    IF ~shouldInitialize(Href(M.href))
    THEN IF M.sidebarInjector # 0
         THEN [destroy(M, M.sidebarInjector) EXCEPT !.sidebarInjector = 0]
         ELSE M
    ELSE LET ex == NewExtractor(Href(M.href))
             M1 == [M EXCEPT !.extractor = <<ex>>, !.tellaExtractor = <<ex>>]
         IN  IF ex.isRecordingPage
             THEN StartRun(initializeSidebarInjection(addExtensionIndicator(M1)), ex, "auto")
             ELSE M1

\* handleUrlChange after its first line
UrlChanged(M, newUrl) ==
         LET wasVideoPage == shouldInitialize(Href(M.lastUrl))
             isVideoPage  == shouldInitialize(Href(newUrl))
             M1 == [M EXCEPT !.lastUrl = newUrl]
             M2 == IF wasVideoPage /\ ~isVideoPage /\ M1.sidebarInjector # 0
                   THEN [destroy(M1, M1.sidebarInjector) EXCEPT
                            !.sidebarInjector = 0,
                            !.extractor = <<>>,
                            !.initializationInProgress = FALSE]
                   ELSE M1
         IN  IF isVideoPage /\ ~M2.initializationInProgress
             THEN LET M3 == [M2 EXCEPT !.initializationInProgress = TRUE,
                                       !.tellaExtractedData = <<>>,
                                       !.extractor = <<>>,
                                       !.webhookInterface = FALSE]
                      M4 == IF M3.sidebarInjector # 0
                            THEN [destroy(M3, M3.sidebarInjector) EXCEPT !.sidebarInjector = 0]
                            ELSE M3
                  IN  [M4 EXCEPT !.tryTimers = Append(@, 0)]
             ELSE M2

\* handleUrlChange
handleUrlChange(M, newUrl) ==
    IF newUrl = M.lastUrl THEN M ELSE UrlChanged(M, newUrl)

\* handleWebhookTabActivated of content.js; panel is event.detail.panel.  The
\* first activation builds the TellaSidebarWebhook, whose init takes the
\* record from window.tellaExtractedData or else calls
\* window.tellaExtractor.extractAllData() (autoExtractAndPreview)
handleWebhookTabActivated(M, panel) ==
    IF panel = 0 THEN M
    ELSE IF ~M.webhookInterface
    THEN LET M1 == [M EXCEPT !.webhookInterface = TRUE]
         IN  IF M.tellaExtractedData = <<>> /\ M.tellaExtractor # <<>>
             THEN StartRun(M1, M.tellaExtractor[1], "iface")
             ELSE M1
    ELSE IF M.extractor # <<>> /\ M.extractor[1].isRecordingPage
    THEN StartRun(M, M.extractor[1], "tab")
    ELSE M

\* The continuation of a run of extractAllData: the then-handlers of
\* initializeExtractor, handleWebhookTabActivated and the extractData message
\* store the record and dispatch 'tella-data-extracted'; the catch-handlers
\* and the TellaSidebarWebhook publish nothing.
settleRun(M, k, resolved) ==
    LET r  == M.runs[k]
        M1 == [M EXCEPT !.runs = [j \in 1..(Len(@) - 1) |-> IF j < k THEN @[j] ELSE @[j + 1]]]
    IN  IF resolved /\ r.src # "iface"
        THEN [M1 EXCEPT !.tellaExtractedData = <<[sid |-> r.sid, u |-> r.u]>>]
        ELSE M1

(***************************************************************************)
(* The lifecycle: initial state and actions                                *)
(***************************************************************************)
XIdle ==
    /\ xHref = 1 /\ xExt = NewExtractor(Href(1))
    /\ xDocOut = [kind |-> "neterr", body |-> JNull]
    /\ xTrOut = [kind |-> "neterr", body |-> JNull]
    /\ xDom = [title |-> FALSE, transcript |-> "none", date |-> "none", rich |-> FALSE]
    /\ xpc = "idle" /\ xDocData = JNull /\ xApi = JNull /\ xData = EmptyObj
    /\ xResult = [kind |-> "pending", value |-> JNull] /\ xGets = <<>>
    /\ xRun = 1 /\ xFirst = [kind |-> "pending", value |-> JNull]

\* The state when content.js has been evaluated and the page has not yet
\* been initialized (DOMContentLoaded pending)
LInit ==
    /\ loaded = FALSE
    /\ href \in LoadUrls
    /\ firstUrl = href
    /\ lastUrl = href
    /\ navs = 0 /\ hostMuts = 0 /\ userActs = 0
    /\ urlChangeTimeout = -1
    /\ initializationInProgress = FALSE
    /\ tryTimers = <<>> /\ resetTimers = 0
    /\ extractor = <<>> /\ tellaExtractor = <<>>
    /\ sidebarInjector = 0
    /\ webhookInterface = FALSE /\ tabListener = FALSE
    /\ tellaExtractedData = <<>>
    /\ runs = <<>> /\ indicators = 0
    /\ inj = [i \in 1..MaxInj |-> NoInjector] /\ nextInj = 1
    /\ sidebar \in BOOLEAN
    /\ tabs = {} /\ panels = {} /\ nextEl = 1

\* No function call is under way
FIdle ==
    /\ fOp = "none" /\ fIn = Undefined /\ fOut = Undefined /\ fpc = "idle"

\* No message to the background script is under way
WIdle ==
    /\ wReq = [action |-> "none", data |-> FALSE]
    /\ wNet = [kind |-> "error", message |-> <<>>]
    /\ wpc = "idle" /\ wPosts = 0 /\ wThrown = <<>>
    /\ wPromise = [kind |-> "pending"] /\ wResponses = <<>>

\* No webhook panel exists
SIdle ==
    /\ sStore = [webhookUrl |-> <<>>, webhookConfig |-> [present |-> FALSE, baseUrl |-> <<>>]]
    /\ sUrl = <<>> /\ sData = EmptyObj /\ spc = "idle"
    /\ sLoads = 0 /\ sSaves = 0 /\ sSent = <<>>
    /\ sTimer = "none" /\ sCallback = "none" /\ sResolved = FALSE
    /\ sPromise = [kind |-> "none", by |-> "none"] /\ sSettles = 0 /\ sShown = "none"

\* No retry loop is looked at
RIdle == rM = [inj |-> <<>>] /\ rTries = 0 /\ rPops = 0

\* No navigation channel is looked at
UIdle ==
    /\ uM = [inj |-> <<>>] /\ uTimers = {} /\ uTimeoutId = 0
    /\ uSignals = 0 /\ uBurst = 0 /\ uFires = 0 /\ uActs = 0

\* No duration is looked for
DIdle ==
    /\ dPage = [duration |-> 0, els |-> <<>>] /\ dStack = <<>>
    /\ dRet = 0 /\ dAns = FALSE /\ dOut = "idle"

Init == LInit /\ XIdle /\ FIdle /\ WIdle /\ SIdle /\ RIdle /\ UIdle /\ DIdle

Events == navs + hostMuts + userActs

\* The environment's pace: the host and the user act when the URL debounce
\* (100 to 200 ms) and the page-ready retries (200 to 300 ms) of the last
\* navigation have fired.  Nothing slower is waited for: the 1 s debounces
\* and delays of the injector, the 2 s reset, the indicator, the network.
Quiet ==
    /\ urlChangeTimeout = -1
    /\ tryTimers = <<>>

\* The machine after a handler becomes the next state.  The document observer
\* of content.js (childList, subtree) runs after the handler: when the URL
\* differs from lastUrl it restarts the debounce timer with the URL it read.
Apply(M) ==
    /\ ~M.overflow
    /\ loaded' = M.loaded /\ firstUrl' = M.firstUrl /\ href' = M.href /\ navs' = M.navs
    /\ hostMuts' = M.hostMuts /\ userActs' = M.userActs /\ lastUrl' = M.lastUrl
    /\ urlChangeTimeout' = IF M.mutAny /\ M.href # M.lastUrl THEN M.href
                           ELSE M.urlChangeTimeout
    /\ initializationInProgress' = M.initializationInProgress
    /\ tryTimers' = M.tryTimers /\ resetTimers' = M.resetTimers
    /\ extractor' = M.extractor /\ tellaExtractor' = M.tellaExtractor
    /\ sidebarInjector' = M.sidebarInjector
    /\ webhookInterface' = M.webhookInterface /\ tabListener' = M.tabListener
    /\ tellaExtractedData' = M.tellaExtractedData
    /\ runs' = M.runs
    /\ indicators' = M.indicators
    /\ inj' = M.inj /\ nextInj' = M.nextInj
    /\ sidebar' = M.sidebar /\ tabs' = M.tabs /\ panels' = M.panels /\ nextEl' = M.nextEl
    /\ UNCHANGED <<xvars, fvars, wvars, svars, rvars, uvars, dvars>>

\* Initialize on load (only if on video page)
Load ==
    /\ ~loaded
    /\ LET M == [Cur EXCEPT !.loaded = TRUE]
       IN  Apply(IF shouldInitialize(Href(href)) THEN initializeExtractor(M) ELSE M)

\* The page navigates client-side: history.pushState / replaceState (patched)
\* or a back/forward step (popstate, which the injectors listen to as well)
Navigate(u, pop) ==
    /\ loaded /\ navs < MaxNavs /\ Events < MaxEvents /\ Quiet /\ u # href
    /\ LET M == [Cur EXCEPT !.href = u, !.navs = @ + 1, !.urlChangeTimeout = 0]
       IN  Apply(IF pop THEN PopstateAll(M, 1) ELSE M)

\* urlChangeTimeout fires
UrlTimer ==
    /\ urlChangeTimeout # -1
    /\ Apply(handleUrlChange([Cur EXCEPT !.urlChangeTimeout = -1],
                             IF urlChangeTimeout = 0 THEN href ELSE urlChangeTimeout))

\* tryInitialize of handleUrlChange; hasContent: the page shows a tablist,
\* a button or more than five children of body
TryInitialize(k, hasContent) ==
    /\ k \in 1..Len(tryTimers)
    /\ sidebar => hasContent
    /\ hasContent \/ tryTimers[k] < MaxStalls
    /\ LET rest == [j \in 1..(Len(tryTimers) - 1) |->
                        IF j < k THEN tryTimers[j] ELSE tryTimers[j + 1]]
       IN  IF hasContent \/ tryTimers[k] >= maxRetries
           THEN Apply(initializeExtractor([Cur EXCEPT !.tryTimers = rest,
                                                      !.resetTimers = @ + 1]))
           ELSE Apply([Cur EXCEPT !.tryTimers[k] = @ + 1])

\* setTimeout(() => { initializationInProgress = false }, 2000)
ResetTimer ==
    /\ resetTimers > 0
    /\ Apply([Cur EXCEPT !.resetTimers = @ - 1, !.initializationInProgress = FALSE])

\* The promise of a run of extractAllData settles
SettleRun(k, resolved) ==
    /\ k \in 1..Len(runs)
    /\ Apply(settleRun(Cur, k, resolved))

\* The popup sends 'extractData'
PopupExtract ==
    /\ loaded /\ userActs < MaxUser /\ Events < MaxEvents /\ Quiet
    /\ LET M0 == [Cur EXCEPT !.userActs = @ + 1]
           M1 == IF extractor = <<>> THEN initializeExtractor(M0) ELSE M0
       IN  Apply(IF M1.extractor = <<>> THEN M1 ELSE StartRun(M1, M1.extractor[1], "popup"))

\* The user clicks the injected tab e: its click handler and observer belong
\* to the instance that created it, which dispatches webhookTabActivated
TabClick(e, i) ==
    /\ userActs < MaxUser /\ Events < MaxEvents /\ Quiet
    /\ e \in tabs /\ e \in inj[i].made /\ inj[i].webhookTab = e
    /\ LET M == [Cur EXCEPT !.userActs = @ + 1]
       IN  Apply(IF tabListener THEN handleWebhookTabActivated(M, inj[i].webhookPanel) ELSE M)

\* The host application re-renders: the sidebar appears or disappears, the
\* injected tab and/or panel are dropped with the containers they were in
HostRender(sb, rmTab, rmPanel, body) ==
    /\ loaded /\ hostMuts < MaxHost /\ Events < MaxEvents /\ Quiet
    /\ (sidebar /\ ~sb) => rmTab
    /\ Apply(Mutate([Cur EXCEPT !.hostMuts = @ + 1, !.sidebar = sb,
                                !.tabs = IF rmTab THEN {} ELSE @,
                                !.panels = IF rmPanel THEN {} ELSE @], sb, body))

\* The fade-out timers of addExtensionIndicator remove the indicator
IndicatorFade ==
    /\ indicators > 0
    /\ Apply(Mutate([Cur EXCEPT !.indicators = @ - 1], FALSE, TRUE))

\* delay(retryDelay) of findAndInjectSidebar elapses
LoopResume(i) ==
    /\ inj[i].loop = "waiting"
    /\ sidebar \/ inj[i].injectionAttempts < MaxStalls
    /\ Apply(LoopIteration(Cur, i))

\* structureChangeTimeout fires
StructTimer(i) ==
    /\ inj[i].structureChangeTimeout
    /\ Apply(handleStructureChange(Cur, i))

\* reinjectTimeout fires
ReinjectTimer(i) ==
    /\ inj[i].reinjectTimeout
    /\ Apply(reinjectCallback(Cur, i))

\* a scheduled setTimeout(() => this.findAndInjectSidebar()) fires
SchedTimer(i) ==
    /\ inj[i].sched > 0
    /\ Apply(findAndInjectSidebar([Cur EXCEPT !.inj[i].sched = @ - 1], i, FALSE))

Next ==
    \/ Load
    \/ \E u \in NavUrls, pop \in BOOLEAN : Navigate(u, pop)
    \/ UrlTimer
    \/ \E k \in 1..MaxNavs, hasContent \in BOOLEAN : TryInitialize(k, hasContent)
    \/ ResetTimer
    \/ \E k \in 1..MaxRuns, resolved \in BOOLEAN : SettleRun(k, resolved)
    \/ PopupExtract
    \/ \E e \in 1..MaxEl, i \in 1..MaxInj : TabClick(e, i)
    \/ \E sb, rmTab, rmPanel, body \in BOOLEAN : HostRender(sb, rmTab, rmPanel, body)
    \/ IndicatorFade
    \/ \E i \in 1..MaxInj : LoopResume(i)
    \/ \E i \in 1..MaxInj : StructTimer(i)
    \/ \E i \in 1..MaxInj : ReinjectTimer(i)
    \/ \E i \in 1..MaxInj : SchedTimer(i)

Spec == Init /\ [][Next]_vars

(***************************************************************************)
(* One run of extractAllData (SpecX): the endpoints' answers are drawn in   *)
(* the initial state, the page is read when the DOM extractors run          *)
(***************************************************************************)
\* new Date() of the run
Now == 1
\* new Date().toISOString() during the n-th call
Clock(n) == Now + (n - 1)
\* calls of extractAllData on one page
MaxCalls == 2

\* The lifecycle is not part of a run
LIdle ==
    /\ loaded = FALSE /\ firstUrl = 1 /\ href = 1 /\ lastUrl = 1
    /\ navs = 0 /\ hostMuts = 0 /\ userActs = 0
    /\ urlChangeTimeout = -1
    /\ initializationInProgress = FALSE
    /\ tryTimers = <<>> /\ resetTimers = 0
    /\ extractor = <<>> /\ tellaExtractor = <<>>
    /\ sidebarInjector = 0
    /\ webhookInterface = FALSE /\ tabListener = FALSE
    /\ tellaExtractedData = <<>>
    /\ runs = <<>> /\ indicators = 0
    /\ inj = [i \in 1..MaxInj |-> NoInjector] /\ nextInj = 1
    /\ sidebar = FALSE
    /\ tabs = {} /\ panels = {} /\ nextEl = 1

InitX ==
    /\ xHref \in UrlIds
    /\ xExt = NewExtractor(Href(xHref))
    /\ xDocOut \in Outcomes(DocBodies)
    /\ xTrOut \in Outcomes(TrBodies)
    /\ xDom = [title |-> FALSE, transcript |-> "none", date |-> "none", rich |-> FALSE]
    /\ xpc = "start"
    /\ xDocData = JNull /\ xApi = JNull /\ xData = EmptyObj
    /\ xResult = [kind |-> "pending", value |-> JNull]
    /\ xGets = <<>>
    /\ xRun = 1 /\ xFirst = [kind |-> "pending", value |-> JNull]
    /\ LIdle /\ FIdle /\ WIdle /\ SIdle /\ RIdle /\ UIdle /\ DIdle

\* extractAllData calls extractFromAPI: without a story id it returns null,
\* else fetchDocumentData issues its GET
XStart ==
    /\ xpc = "start"
    /\ IF ~Truthy(xExt.storyId)
       THEN /\ xApi' = JNull /\ xpc' = "dom" /\ UNCHANGED xGets
       ELSE /\ xGets' = Append(xGets, "document") /\ xpc' = "doc" /\ UNCHANGED xApi
    /\ UNCHANGED <<xHref, xExt, xDocOut, xTrOut, xDom, xDocData, xData, xResult,
                 xRun, xFirst, lvars, fvars, wvars, svars, rvars, uvars, dvars>>

\* The document fetch settles: a falsy documentData ends extractFromAPI with
\* null, else fetchTranscriptionData issues its GET
XDocSettle ==
    /\ xpc = "doc"
    /\ xDocData' = FetchJson(xDocOut)
    /\ IF Truthy(FetchJson(xDocOut))
       THEN /\ xGets' = Append(xGets, "transcriptions") /\ xpc' = "tr" /\ UNCHANGED xApi
       ELSE /\ xApi' = JNull /\ xpc' = "dom" /\ UNCHANGED xGets
    /\ UNCHANGED <<xHref, xExt, xDocOut, xTrOut, xDom, xData, xResult,
                 xRun, xFirst, lvars, fvars, wvars, svars, rvars, uvars, dvars>>

\* The transcription fetch settles: parseDocumentData runs inside the try
\* block, whose catch makes extractFromAPI return null
XTrSettle ==
    /\ xpc = "tr"
    /\ LET rec == parseDocumentData(xDocData, FetchJson(xTrOut), xExt.storyId,
                                    Href(xHref), Clock(xRun))
       IN  xApi' = IF Threw(rec) THEN JNull ELSE rec
    /\ xpc' = "dom"
    /\ UNCHANGED <<xHref, xExt, xDocOut, xTrOut, xDom, xDocData, xData, xResult, xGets,
                 xRun, xFirst, lvars, fvars, wvars, svars, rvars, uvars, dvars>>

\* extractAllData resumes with apiData on the page it finds (dom; the page
\* the call before left behind when there was one): the API
\* branch, or the DOM branch, whose object literal may throw before this.data
\* is assigned.  extractTranscript may have clicked the transcript toggle.
XResume(dom) ==
    /\ xpc = "dom"
    /\ xRun > 1 => dom = xDom
    /\ IF Truthy(xApi)
       THEN /\ xData' = ApiRecord(xApi, dom)
            /\ xResult' = [kind |-> "resolved", value |-> ApiRecord(xApi, dom)]
            /\ xDom' = IF Truthy(Get(xApi, "transcript")) THEN dom
                       ELSE DomAfterTranscript(dom)
       ELSE /\ xDom' = DomAfterTranscript(dom)
            /\ IF Threw(DomRecord(dom, Href(xHref), Clock(xRun)))
               THEN /\ xResult' = [kind |-> "rejected", value |-> JNull]
                    /\ UNCHANGED xData
               ELSE /\ xData' = DomRecord(dom, Href(xHref), Clock(xRun))
                    /\ xResult' = [kind |-> "resolved", value |-> DomRecord(dom, Href(xHref), Clock(xRun))]
    /\ xpc' = "done"
    /\ UNCHANGED <<xHref, xExt, xDocOut, xTrOut, xDocData, xApi, xGets,
                 xRun, xFirst, lvars, fvars, wvars, svars, rvars, uvars, dvars>>

\* extractAllData is called again on the same extractor, with no navigation
\* and the same answers of the endpoints; a transcript the host was loading
\* since the toggle was clicked has been rendered, or not yet
XRerun(rendered) ==
    /\ xpc = "done" /\ xRun < MaxCalls
    /\ xFirst' = xResult
    /\ xRun' = xRun + 1
    /\ xDom' = IF xDom.transcript = "loading" /\ rendered
               THEN [xDom EXCEPT !.transcript = "clean"] ELSE xDom
    /\ xpc' = "start"
    /\ xDocData' = JNull /\ xApi' = JNull
    /\ xResult' = [kind |-> "pending", value |-> JNull]
    /\ xGets' = <<>>
    /\ UNCHANGED <<xHref, xExt, xDocOut, xTrOut, xData, lvars, fvars,
                 wvars, svars, rvars, uvars, dvars>>

NextX ==
    \/ XStart
    \/ XDocSettle
    \/ XTrSettle
    \/ \E dom \in DomStates \cup {xDom} : XResume(dom)
    \/ \E rendered \in BOOLEAN : XRerun(rendered)

SpecX == InitX /\ [][NextX]_vars

(***************************************************************************)
(* One call of a pure function (SpecF): the argument is drawn in the       *)
(* initial state, the action of the function returns its value             *)
(***************************************************************************)
\* path segments the URLs of SpecF are made of, and how many of them
MaxSegs == 4
UrlSegs == {SVideo, SStories, SWatch, SView, <<"a">>, <<"b">>, <<"-">>}

RECURSIVE SegPaths(_)
SegPaths(n) ==
    IF n = 0 THEN {<<>>}
    ELSE LET S == SegPaths(n - 1) IN S \cup {q \o g : q \in S, g \in UrlSegs}

\* the values of window.location.href extractStoryId is called on
FUrls == {Origin \o q : q \in SegPaths(MaxSegs)}

\* the durations formatDuration is called on: the integers within DurSpan
\* of the values the documentation names, the halves between them, and
\* values that are no numbers
DurSpan == 3
DurCentres == {0, 45, 9999, 10000, 45000, 125000}
DurIntegers == {c + k : c \in DurCentres, k \in (0 - DurSpan)..DurSpan}
FDurations ==
    {JNum(n) : n \in DurIntegers}
    \cup {JFrac(2 * n + 1, 2) : n \in DurIntegers}
    \cup {JNull, Undefined, JBool(TRUE), EmptyObj,
          JStr(<<"a","b","c">>), JStr(<<"4","5">>), JStr(<<"0">>),
          JObj([duration |-> JNum(45000)]), JObj([duration |-> JNull])}

\* the records cleanObject is called on: key a holds a leaf, key b a leaf or
\* a record one level less deep; and the record of the documentation
MaxDepth == 3
PruneLeaves == {JNull, JNum(0), JStr(<<>>), JArr(<<JNull>>)}
RECURSIVE Records(_)
Records(d) ==
    LET under == IF d = 0 THEN PruneLeaves ELSE PruneLeaves \cup Records(d - 1)
    IN  {EmptyObj}
        \cup {JObj([a |-> x]) : x \in PruneLeaves}
        \cup {JObj([b |-> y]) : y \in under}
        \cup {JObj([a |-> x, b |-> y]) : x \in PruneLeaves, y \in under}
PruneExample ==
    JObj([a |-> JNull, b |-> JObj([c |-> JNull]), d |-> JNum(0), e |-> JStr(<<>>)])
FRecords == Records(MaxDepth) \cup {PruneExample}

InitF ==
    /\ \/ fOp = "extractStoryId" /\ fIn \in FUrls
       \/ fOp = "formatDuration" /\ fIn \in FDurations
       \/ fOp = "cleanObject" /\ fIn \in FRecords
    /\ fOut = Undefined
    /\ fpc = "in"
    /\ LIdle /\ XIdle /\ WIdle /\ SIdle /\ RIdle /\ UIdle /\ DIdle

\* TellaDataExtractor.extractStoryId returns
FExtractStoryId ==
    /\ fpc = "in" /\ fOp = "extractStoryId"
    /\ fOut' = extractStoryId(fIn)
    /\ fpc' = "out"
    /\ UNCHANGED <<fOp, fIn, xvars, lvars, wvars, svars, rvars, uvars, dvars>>

\* TellaDataExtractor.formatDuration returns
FFormatDuration ==
    /\ fpc = "in" /\ fOp = "formatDuration"
    /\ fOut' = formatDuration(fIn)
    /\ fpc' = "out"
    /\ UNCHANGED <<fOp, fIn, xvars, lvars, wvars, svars, rvars, uvars, dvars>>

\* cleanObject returns
FCleanObject ==
    /\ fpc = "in" /\ fOp = "cleanObject"
    /\ fOut' = cleanObject(fIn)
    /\ fpc' = "out"
    /\ UNCHANGED <<fOp, fIn, xvars, lvars, wvars, svars, rvars, uvars, dvars>>

\* cleanObject is called on the record it returned
FCleanAgain ==
    /\ fpc = "out" /\ fOp = "cleanObject"
    /\ fOut' = cleanObject(fOut)
    /\ fpc' = "again"
    /\ UNCHANGED <<fOp, fIn, xvars, lvars, wvars, svars, rvars, uvars, dvars>>

NextF ==
    \/ FExtractStoryId
    \/ FFormatDuration
    \/ FCleanObject
    \/ FCleanAgain

SpecF == InitF /\ [][NextF]_vars

(***************************************************************************)
(* One message to the background script (SpecW): the popup or the sidebar  *)
(* sends {action, url, data}; the POST is answered by the webhook service  *)
(* or fails                                                                *)
(***************************************************************************)
SFailedToFetch == <<"F","a","i","l","e","d"," ","t","o"," ","f","e","t","c","h">>
SErrCert == <<"E","R","R","_","C","E","R","T","_">>
SCors == <<"C","O","R","S">>
S400 == <<"4","0","0">>
S404 == <<"4","0","4">>
S500 == <<"5","0","0">>

\* handleSendToWebhook: the user-friendly message for a technical one
friendlyError(message) ==
    IF Includes(message, SFailedToFetch) THEN
      <<"N","e","t","w","o","r","k"," ","e","r","r","o","r"," ","-"," ","c","o","u","l","d"," ",
      "n","o","t"," ","r","e","a","c","h"," ","w","e","b","h","o","o","k"," ","U","R","L",
      "."," ","C","h","e","c","k"," ","t","h","e"," ","U","R","L"," ","a","n","d"," ","y",
      "o","u","r"," ","i","n","t","e","r","n","e","t"," ","c","o","n","n","e","c","t","i",
      "o","n",".">>
    ELSE IF Includes(message, SErrCert) THEN
      <<"S","S","L"," ","c","e","r","t","i","f","i","c","a","t","e"," ","e","r","r","o","r"," ",
      "-"," ","t","h","e"," ","w","e","b","h","o","o","k"," ","U","R","L"," ","m","a","y",
      " ","b","e"," ","i","n","v","a","l","i","d",".">>
    ELSE IF Includes(message, SCors) THEN
      <<"C","O","R","S"," ","e","r","r","o","r"," ","-"," ","t","h","e"," ","w","e","b","h","o",
      "o","k"," ","s","e","r","v","i","c","e"," ","m","a","y"," ","n","e","e","d"," ","t",
      "o"," ","a","l","l","o","w"," ","b","r","o","w","s","e","r"," ","r","e","q","u","e",
      "s","t","s",".">>
    ELSE IF Includes(message, S400) THEN
      <<"B","a","d"," ","R","e","q","u","e","s","t"," ","-"," ","t","h","e"," ","w","e","b","h",
      "o","o","k"," ","s","e","r","v","i","c","e"," ","r","e","j","e","c","t","e","d"," ",
      "t","h","e"," ","d","a","t","a"," ","f","o","r","m","a","t",".">>
    ELSE IF Includes(message, S404) THEN
      <<"W","e","b","h","o","o","k"," ","U","R","L"," ","n","o","t"," ","f","o","u","n","d",".",
      " ","P","l","e","a","s","e"," ","c","h","e","c","k"," ","t","h","e"," ","U","R","L",
      " ","i","s"," ","c","o","r","r","e","c","t",".">>
    ELSE IF Includes(message, S500) THEN
      <<"W","e","b","h","o","o","k"," ","s","e","r","v","i","c","e"," ","e","r","r","o","r",".",
      " ","P","l","e","a","s","e"," ","t","r","y"," ","a","g","a","i","n"," ","l","a","t",
      "e","r",".">>
    ELSE message

\* errorText.substring(0, 200)
DetailLimit == 200
Substring0(s, n) == SubSeq(s, 1, IF Len(s) < n THEN Len(s) ELSE n)

\* the message of the Error thrown for a response that is not ok; body.read
\* is FALSE when response.text() failed
HttpErrorMessage(status, statusText, body) ==
    LET errorDetail == IF body.read /\ body.text # <<>>
                       THEN <<" ","-"," ">> \o Substring0(body.text, DetailLimit)
                       ELSE <<>>
    IN  <<"H","T","T","P"," ">> \o NumToStr(status) \o <<":"," ">> \o statusText \o errorDetail

\* handleSendToWebhook: the object returned for a response that is ok
Delivered(status) ==
    [success |-> TRUE, status |-> status,
     message |-> <<"W","e","b","h","o","o","k"," ","d","e","l","i","v","e","r","e","d"," ","s","u","c","c",
      "e","s","s","f","u","l","l","y"," ","(">>
                 \o NumToStr(status) \o <<")">>]

\* the object of the catch block with the friendly message in both fields
FailedFriendlyOnly(message) ==
    [success |-> FALSE, error |-> friendlyError(message),
     originalError |-> friendlyError(message)]

\* handleSendToWebhook: the object returned by the catch block
Failed(message) ==
    [success |-> FALSE, error |-> friendlyError(message), originalError |-> message]

\* response.ok
ResponseOk(status) == status \in 200..299

\* the statuses, status texts and bodies of the responses, and the messages
\* of the errors fetch rejects with
Statuses == {200, 204, 299, 300, 400, 401, 404, 500, 503}
StatusTexts == {<<>>, <<"E","r","r">>}
LongText == [i \in 1..(DetailLimit + 1) |-> IF i > DetailLimit THEN "!" ELSE "x"]
BodyTexts == {<<>>, <<"n","o"," ","4","0","4">>, LongText}
Bodies == [read : {TRUE}, text : BodyTexts] \cup {[read |-> FALSE, text |-> <<>>]}
FetchErrors == {
    SFailedToFetch,
    <<"n","e","t",":",":","E","R","R","_","C","E","R","T","_","A","U","T","H","O","R","I","T",
      "Y","_","I","N","V","A","L","I","D">>,
    <<"b","l","o","c","k","e","d"," ","b","y"," ","C","O","R","S"," ","p","o","l","i","c","y">>,
    <<"T","h","e"," ","u","s","e","r"," ","a","b","o","r","t","e","d"," ","a"," ","r","e","q",
      "u","e","s","t",".">> }
\* TypeError of JSON.stringify(undefined).length
SNoLength == <<"C","a","n","n","o","t"," ","r","e","a","d"," ","p","r","o","p","e","r","t","i","e","s",
      " ","o","f"," ","u","n","d","e","f","i","n","e","d"," ","(","r","e","a","d","i","n",
      "g"," ","'","l","e","n","g","t","h","'",")">>

InitW ==
    /\ wReq \in [action : {"sendToWebhook", "extractData"}, data : BOOLEAN]
    /\ wNet \in [kind : {"response"}, status : Statuses, statusText : StatusTexts, body : Bodies]
               \cup [kind : {"error"}, message : FetchErrors]
    /\ wpc = "received" /\ wPosts = 0 /\ wThrown = <<>>
    /\ wPromise = [kind |-> "pending"] /\ wResponses = <<>>
    /\ LIdle /\ XIdle /\ FIdle /\ SIdle /\ RIdle /\ UIdle /\ DIdle

\* The onMessage listener runs: for sendToWebhook it calls
\* handleSendToWebhook, which runs up to its await fetch(...) (data FALSE:
\* request.data is undefined and the size for the log cannot be taken)
WReceive ==
    /\ wpc = "received"
    /\ IF wReq.action # "sendToWebhook"
       THEN /\ wpc' = "ignored"
            /\ UNCHANGED <<wPosts, wThrown, wPromise>>
       ELSE IF ~wReq.data
       THEN /\ wThrown' = SNoLength
            /\ wPromise' = [kind |-> "resolved", value |-> Failed(SNoLength)]
            /\ wpc' = "settled"
            /\ UNCHANGED wPosts
       ELSE /\ wPosts' = wPosts + 1
            /\ wpc' = "fetching"
            /\ UNCHANGED <<wThrown, wPromise>>
    /\ UNCHANGED <<wReq, wNet, wResponses, xvars, lvars, fvars, svars, rvars, uvars, dvars>>

\* fetch settles and handleSendToWebhook runs to its return (the text of a
\* response that is not ok is read on the way)
WFetchSettle ==
    /\ wpc = "fetching"
    /\ LET message == IF wNet.kind = "error" THEN wNet.message
                      ELSE HttpErrorMessage(wNet.status, wNet.statusText, wNet.body)
       IN  IF wNet.kind = "response" /\ ResponseOk(wNet.status)
           THEN /\ wPromise' = [kind |-> "resolved", value |-> Delivered(wNet.status)]
                /\ UNCHANGED wThrown
           ELSE /\ wThrown' = message
                /\ wPromise' = [kind |-> "resolved", value |-> Failed(message)]
    /\ wpc' = "settled"
    /\ UNCHANGED <<wReq, wNet, wPosts, wResponses, xvars, lvars, fvars, svars, rvars, uvars, dvars>>

\* the then / catch callbacks of the listener call sendResponse
WAnswer ==
    /\ wpc = "settled"
    /\ wResponses' = Append(wResponses,
                            IF wPromise.kind = "resolved" THEN wPromise.value
                            ELSE [success |-> FALSE, error |-> wThrown])
    /\ wpc' = "answered"
    /\ UNCHANGED <<wReq, wNet, wPosts, wThrown, wPromise, xvars, lvars, fvars, svars, rvars, uvars, dvars>>

NextW ==
    \/ WReceive
    \/ WFetchSettle
    \/ WAnswer

SpecW == InitW /\ [][NextW]_vars

(***************************************************************************)
(* The webhook panel of the sidebar (SpecS, sidebar-webhook.js): the URL   *)
(* is loaded from storage, saved from the input field, and the extracted   *)
(* record is sent through the background script                            *)
(***************************************************************************)
\* String.prototype.startsWith
StartsWith(s, sub) == OccursAt(s, sub, 1)

\* position of the first ':' of s, 0 when there is none
ColonAt(s) == IF \E p \in 1..Len(s) : s[p] = ":"
              THEN CHOOSE p \in 1..Len(s) : s[p] = ":" /\ \A q \in 1..(p - 1) : s[q] # ":"
              ELSE 0

\* new URL(s).protocol: the scheme and its colon; a TypeError (Throw) when s
\* has no scheme, or names a web scheme without a host
UrlProtocol(s) ==
    LET c == ColonAt(s)
        scheme == SubSeq(s, 1, c - 1)
        rest == SubSeq(s, c + 1, Len(s))
        wellFormed == /\ c > 1
                      /\ s[1] \in Lower \cup Upper
                      /\ \A q \in 2..(c - 1) : s[q] \in AlnumChars \cup {"+", "-", "."}
        special == scheme \in {<<"h","t","t","p">>, <<"h","t","t","p","s">>, <<"f","t","p">>}
    IN  IF ~wellFormed THEN Throw
        ELSE IF special /\ \A q \in 1..Len(rest) : rest[q] = "/" THEN Throw
        ELSE JStr(scheme \o <<":">>)

SHttp == <<"h","t","t","p">>

\* sendToWebhook: the validation of this.webhookUrl passes
UrlAccepted(url) ==
    /\ ~Threw(UrlProtocol(url))
    /\ StartsWith(UrlProtocol(url).v, SHttp)

\* the validation with the scheme compared to 'https:'
UrlAcceptedHttpsOnly(url) ==
    /\ ~Threw(UrlProtocol(url))
    /\ UrlProtocol(url).v = <<"h","t","t","p","s",":">>

\* TellaSidebarWebhook.formatTimestampWithLeadingZeros
formatTimestampWithLeadingZeros(seconds) ==
    IF ~IsNumber(seconds) THEN <<"0","0",":","0","0">>
    ELSE LET n == Numer(seconds) \div Denom(seconds)
             hours == n \div 3600
             minutes == (n % 3600) \div 60
             rem == n % 60
         IN  IF hours > 0
             THEN PadStart2(NumToStr(hours)) \o <<":">> \o PadStart2(NumToStr(minutes))
                  \o <<":">> \o PadStart2(NumToStr(rem))
             ELSE PadStart2(NumToStr(minutes)) \o <<":">> \o PadStart2(NumToStr(rem))

SUntitled == <<"U","n","t","i","t","l","e","d">>

\* the map callback of formatChaptersAsMarkdown: one line of chaptersMd
ChapterLine(chapter) ==
    LET timestamp == IF Truthy(Get(chapter, "timestampFormatted"))
                     THEN Get(chapter, "timestampFormatted").v
                     ELSE IF Get(chapter, "timestamp").t # "undef"
                     THEN formatTimestampWithLeadingZeros(Get(chapter, "timestamp"))
                     ELSE <<"0","0",":","0","0">>
        title == Or(Get(chapter, "title"), JStr(SUntitled)).v
        description == Or(Get(chapter, "description"), JStr(<<>>)).v
    IN  IF description # <<>>
        THEN <<"-"," ">> \o timestamp \o <<" ">> \o title \o <<" ","-"," ">> \o description
        ELSE <<"-"," ">> \o timestamp \o <<" ">> \o title

\* Array.prototype.join('\n')
RECURSIVE JoinLines(_)
JoinLines(a) == IF a = <<>> THEN <<>>
                ELSE IF Len(a) = 1 THEN a[1]
                ELSE a[1] \o <<"\n">> \o JoinLines(Tail(a))

\* TellaSidebarWebhook.formatChaptersAsMarkdown; chapter.timestampFormatted
\* throws on a null chapter
formatChaptersAsMarkdown(chapters) ==
    IF ~Truthy(chapters) \/ ~IsArray(chapters) \/ Len(chapters.v) = 0 THEN JStr(<<>>)
    ELSE IF \E i \in 1..Len(chapters.v) : chapters.v[i].t \in {"null", "undef"} THEN Throw
    ELSE JStr(JoinLines([i \in 1..Len(chapters.v) |-> ChapterLine(chapters.v[i])]))

\* TellaSidebarWebhook._buildEnhancedPayload
buildEnhancedPayload(extractedData) ==
    LET contentData == Or(Get(extractedData, "content"), EmptyObj)
        chapters == Or(Get(contentData, "chapters"), JArr(<<>>))
        chaptersMd == formatChaptersAsMarkdown(chapters)
    IN  IF Threw(chaptersMd) THEN Throw
        ELSE Put(extractedData, "content", Put(contentData, "chaptersMd", chaptersMd))

\* the webhook URLs of the model: what the user types, what storage holds
UHttps == <<"h","t","t","p","s",":","/","/","h",".","i","o","/","x">>
UHttp == <<"h","t","t","p",":","/","/","h",".","i","o","/","x">>
WebhookUrls == {UHttps, UHttp, <<"f","t","p",":","/","/","h",".","i","o","/","x">>, <<"h","t","t","p","x",":","/","/","h",".","i","o","/","x">>, <<"h",".","i","o","/","x">>}
StoredUrls == {UHttps, UHttp}
NoConfig == [present |-> FALSE, baseUrl |-> <<>>]

\* the records this.extractedData holds: none, API records, the flat record
\* of the DOM branch, records of other senders of tellaDataExtracted
ChapterDoc ==
    JObj([story |-> JObj([name |-> JStr(<<"D">>),
        chapters |-> JArr(<< JObj([timestamp |-> JNum(10), title |-> JStr(<<"I","n","t","r","o">>)]),
                             JObj([timestamp |-> JNum(754), title |-> JStr(<<"B">>),
                                   description |-> JStr(<<"d">>)]),
                             JObj([timestamp |-> JNum(3700)]) >>)])])
SRecords == {
    EmptyObj,
    parseDocumentData(ChapterDoc, JNull, JStr(<<"a">>), Href(1), Now),
    parseDocumentData(EmptyObj, JNull, JStr(<<"a">>), Href(1), Now),
    DomRecord([title |-> TRUE, transcript |-> "clean", date |-> "none", rich |-> TRUE], Href(1), Now),
    JObj([content |-> JObj([chapters |-> JArr(<< JObj([timestamp |-> JNum(75), title |-> JStr(<<"T">>)]),
                                                 EmptyObj >>)])]),
    JObj([content |-> JObj([chapters |-> JArr(<< JNull >>)])]) }

\* what the background script answers, or chrome reports: a success object,
\* a failure object, no response, chrome.runtime.lastError
Answers == {"success", "failure", "undefined", "lastError"}

\* loadWebhookUrl calls, saveWebhookUrl calls and messages of one behaviour
MaxLoads == 2
MaxSaves == 1
MaxSends == 2

InitS ==
    /\ sStore \in {[webhookUrl |-> u, webhookConfig |-> NoConfig] : u \in StoredUrls \cup {<<>>}}
             \cup {[webhookUrl |-> <<>>, webhookConfig |-> [present |-> TRUE, baseUrl |-> u]] :
                      u \in StoredUrls}
    /\ sUrl = <<>>
    /\ sData \in SRecords
    /\ spc = "load.get"
    /\ sLoads = 1 /\ sSaves = 0 /\ sSent = <<>>
    /\ sTimer = "none" /\ sCallback = "none" /\ sResolved = FALSE
    /\ sPromise = [kind |-> "none", by |-> "none"] /\ sSettles = 0 /\ sShown = "none"
    /\ LIdle /\ XIdle /\ FIdle /\ WIdle /\ RIdle /\ UIdle /\ DIdle

\* loadWebhookUrl: chrome.storage.local.get settles (ok: without error).  The
\* flat URL is used; else the baseUrl of the legacy config, which is then
\* written back; an error ends the load in the catch block
SLoadGet(ok) ==
    /\ spc = "load.get"
    /\ IF ~ok THEN spc' = "ready" /\ UNCHANGED sUrl
       ELSE IF sStore.webhookUrl # <<>>
       THEN sUrl' = sStore.webhookUrl /\ spc' = "ready"
       ELSE IF sStore.webhookConfig.present /\ sStore.webhookConfig.baseUrl # <<>>
       THEN sUrl' = sStore.webhookConfig.baseUrl /\ spc' = "load.set"
       ELSE spc' = "ready" /\ UNCHANGED sUrl
    /\ UNCHANGED <<sStore, sData, sLoads, sSaves, sSent, sTimer, sCallback, sResolved,
                   sPromise, sSettles, sShown, xvars, lvars, fvars, wvars, rvars, uvars, dvars>>

\* loadWebhookUrl: chrome.storage.local.set({webhookUrl}) settles
SLoadSet(ok) ==
    /\ spc = "load.set"
    /\ IF ok THEN sStore' = [sStore EXCEPT !.webhookUrl = sUrl] /\ spc' = "load.remove"
       ELSE spc' = "ready" /\ UNCHANGED sStore
    /\ UNCHANGED <<sUrl, sData, sLoads, sSaves, sSent, sTimer, sCallback, sResolved,
                   sPromise, sSettles, sShown, xvars, lvars, fvars, wvars, rvars, uvars, dvars>>

\* loadWebhookUrl: chrome.storage.local.remove(['webhookConfig']) settles
SLoadRemove(ok) ==
    /\ spc = "load.remove"
    /\ sStore' = IF ok THEN [sStore EXCEPT !.webhookConfig = NoConfig] ELSE sStore
    /\ spc' = "ready"
    /\ UNCHANGED <<sUrl, sData, sLoads, sSaves, sSent, sTimer, sCallback, sResolved,
                   sPromise, sSettles, sShown, xvars, lvars, fvars, wvars, rvars, uvars, dvars>>

\* loadWebhookUrl is called again with no URL in memory: by the panel built
\* after a navigation or a reload of the page (which ends a load under way),
\* or by the click handler of the send button
SReload ==
    /\ spc \in {"ready", "load.set", "load.remove"}
    /\ sLoads < MaxLoads
    /\ sTimer # "armed" /\ sCallback # "waiting"
    /\ sLoads' = sLoads + 1
    /\ sUrl' = <<>>
    /\ spc' = "load.get"
    /\ UNCHANGED <<sStore, sData, sSaves, sSent, sTimer, sCallback, sResolved,
                   sPromise, sSettles, sShown, xvars, lvars, fvars, wvars, rvars, uvars, dvars>>

\* saveWebhookUrl with the trimmed text of the input field
SSave(input, ok) ==
    /\ spc = "ready" /\ sSaves < MaxSaves
    /\ sSaves' = sSaves + 1
    /\ IF input = <<>> \/ Threw(UrlProtocol(input))
       THEN sShown' = "error" /\ UNCHANGED <<sUrl, sStore>>
       ELSE /\ sUrl' = input
            /\ sStore' = IF ok THEN [sStore EXCEPT !.webhookUrl = input] ELSE sStore
            /\ sShown' = IF ok THEN "success" ELSE "error"
    /\ UNCHANGED <<sData, spc, sLoads, sSent, sTimer, sCallback, sResolved,
                   sPromise, sSettles, xvars, lvars, fvars, wvars, rvars, uvars, dvars>>

\* sendRuntimeMessage: the response callback acts unless the promise was
\* settled before
CallbackActsAlways(resolved) == TRUE
CallbackActs(resolved) == ~resolved

\* sendToWebhook up to its await: the checks of URL and record, the payload,
\* and sendRuntimeMessage, which arms its timeout and hands the message to
\* chrome.runtime.sendMessage (runtime: that API exists)
SSend(runtime) ==
    /\ spc = "ready" /\ Len(sSent) < MaxSends
    /\ sTimer # "armed" /\ sCallback # "waiting"
    /\ IF \/ sUrl = <<>>
          \/ ~UrlAccepted(sUrl)
          \/ (sData.t = "obj" /\ DOMAIN sData.v = {})
          \/ Threw(buildEnhancedPayload(sData))
       THEN /\ sShown' = "error"
            /\ UNCHANGED <<spc, sSent, sTimer, sCallback, sResolved, sPromise, sSettles>>
       ELSE IF ~runtime
       THEN /\ sPromise' = [kind |-> "rejected", by |-> "unavailable"]
            /\ sSettles' = 1 /\ sResolved' = FALSE
            /\ sTimer' = "none" /\ sCallback' = "none"
            /\ sShown' = "error"
            /\ UNCHANGED <<spc, sSent>>
       ELSE /\ sSent' = Append(sSent, [url |-> sUrl, data |-> buildEnhancedPayload(sData),
                                       of |-> sData])
            /\ sTimer' = "armed" /\ sCallback' = "waiting" /\ sResolved' = FALSE
            /\ sPromise' = [kind |-> "pending", by |-> "none"]
            /\ sSettles' = 0
            /\ spc' = "sending"
            /\ UNCHANGED sShown
    /\ UNCHANGED <<sStore, sUrl, sData, sLoads, sSaves, xvars, lvars, fvars, wvars, rvars, uvars, dvars>>

\* the timeout of sendRuntimeMessage fires; sendToWebhook resumes in its catch
STimeout ==
    /\ sTimer = "armed"
    /\ sTimer' = "fired"
    /\ IF ~sResolved
       THEN /\ sResolved' = TRUE
            /\ sSettles' = sSettles + 1
            /\ sPromise' = IF sPromise.kind = "pending"
                           THEN [kind |-> "rejected", by |-> "timeout"] ELSE sPromise
            /\ IF sPromise.kind = "pending"
               THEN sShown' = "error" /\ spc' = "ready"
               ELSE UNCHANGED <<sShown, spc>>
       ELSE UNCHANGED <<sResolved, sSettles, sPromise, sShown, spc>>
    /\ UNCHANGED <<sStore, sUrl, sData, sLoads, sSaves, sSent, sCallback,
                   xvars, lvars, fvars, wvars, rvars, uvars, dvars>>

\* chrome calls the response callback; sendToWebhook resumes with the
\* response or in its catch
SResponse(answer) ==
    /\ sCallback = "waiting"
    /\ sCallback' = "called"
    /\ IF CallbackActs(sResolved)
       THEN /\ sResolved' = TRUE
            /\ sTimer' = IF sTimer = "armed" THEN "cleared" ELSE sTimer
            /\ sSettles' = sSettles + 1
            /\ sPromise' = IF sPromise.kind # "pending" THEN sPromise
                           ELSE IF answer \in {"lastError", "undefined"}
                           THEN [kind |-> "rejected", by |-> answer]
                           ELSE [kind |-> "resolved", by |-> answer]
            /\ IF sPromise.kind = "pending"
               THEN /\ sShown' = IF answer = "success" THEN "success" ELSE "error"
                    /\ spc' = "ready"
               ELSE UNCHANGED <<sShown, spc>>
       ELSE UNCHANGED <<sResolved, sTimer, sSettles, sPromise, sShown, spc>>
    /\ UNCHANGED <<sStore, sUrl, sData, sLoads, sSaves, sSent, xvars, lvars, fvars, wvars, rvars, uvars, dvars>>

NextS ==
    \/ \E ok \in BOOLEAN : SLoadGet(ok)
    \/ \E ok \in BOOLEAN : SLoadSet(ok)
    \/ \E ok \in BOOLEAN : SLoadRemove(ok)
    \/ SReload
    \/ \E input \in WebhookUrls \cup {<<>>}, ok \in BOOLEAN : SSave(input, ok)
    \/ \E runtime \in BOOLEAN : SSend(runtime)
    \/ STimeout
    \/ \E answer \in Answers : SResponse(answer)

SpecS == InitS /\ [][NextS]_vars

(***************************************************************************)
(* The retry loop of one injector (SpecR): an injector that has injected   *)
(* its tab on /video/a/view; the host re-renders, the user goes back and   *)
(* forth, the timers of the injector fire.  The procedures are those of    *)
(* the lifecycle, run on the machine record rM without its pacing.         *)
(***************************************************************************)
\* popstate navigations of one behaviour
MaxPops == 2

\* The machine a handler leaves behind, without the transient fields
After(M) == [M EXCEPT !.ret = FALSE, !.mutAny = FALSE]

\* the attempts a step added to this.injectionAttempts
Attempted(M, N) == IF N.inj[1].injectionAttempts > M.inj[1].injectionAttempts THEN 1 ELSE 0

InitR ==
    /\ LIdle /\ XIdle /\ FIdle /\ WIdle /\ SIdle /\ UIdle /\ DIdle
    /\ rM = After(findAndInjectSidebar([Cur EXCEPT !.loaded = TRUE, !.sidebar = TRUE,
                                                   !.inj[1] = NewInjector, !.nextInj = 2,
                                                   !.sidebarInjector = 1], 1, TRUE))
    /\ rTries = 1 /\ rPops = 0

\* the host re-renders: the sidebar appears or goes, the injected tab and
\* panel go with it or stay
RHostRender(sb, rmTab) ==
    /\ (rM.sidebar /\ ~sb) => rmTab
    /\ rM' = After(Mutate([rM EXCEPT !.sidebar = sb,
                                     !.tabs = IF rmTab THEN {} ELSE @,
                                     !.panels = IF rmTab THEN {} ELSE @], sb, TRUE))
    /\ rM' # rM
    /\ UNCHANGED <<rTries, rPops, xvars, lvars, fvars, wvars, svars, uvars, dvars>>

\* the user goes back or forward: the popstate listener of the injector runs
RPopstate(u) ==
    /\ rPops < MaxPops /\ u # rM.href
    /\ rPops' = rPops + 1
    /\ rM' = After(popstateListener([rM EXCEPT !.href = u], 1))
    /\ UNCHANGED <<rTries, xvars, lvars, fvars, wvars, svars, uvars, dvars>>

\* structureChangeTimeout fires
RStructTimer ==
    /\ rM.inj[1].structureChangeTimeout
    /\ rM' = After(handleStructureChange(rM, 1))
    /\ UNCHANGED <<rTries, rPops, xvars, lvars, fvars, wvars, svars, uvars, dvars>>

\* reinjectTimeout fires
RReinjectTimer ==
    /\ rM.inj[1].reinjectTimeout
    /\ rM' = After(reinjectCallback(rM, 1))
    /\ UNCHANGED <<rTries, rPops, xvars, lvars, fvars, wvars, svars, uvars, dvars>>

\* a scheduled setTimeout(() => this.findAndInjectSidebar()) fires; a run
\* starts unless one is under way
RSchedTimer ==
    /\ rM.inj[1].sched > 0
    /\ LET M == [rM EXCEPT !.inj[1].sched = @ - 1]
           N == findAndInjectSidebar(M, 1, FALSE)
       IN  /\ ~N.overflow /\ rM' = After(N)
           /\ rTries' = IF rM.inj[1].isInjecting THEN rTries ELSE Attempted(M, N)
    /\ UNCHANGED <<rPops, xvars, lvars, fvars, wvars, svars, uvars, dvars>>

\* delay(retryDelay) of the running findAndInjectSidebar elapses
RLoopResume ==
    /\ rM.inj[1].loop = "waiting"
    /\ ~LoopIteration(rM, 1).overflow
    /\ rM' = After(LoopIteration(rM, 1))
    /\ rTries' = rTries + Attempted(rM, LoopIteration(rM, 1))
    /\ UNCHANGED <<rPops, xvars, lvars, fvars, wvars, svars, uvars, dvars>>

NextR ==
    \/ \E sb, rmTab \in BOOLEAN : RHostRender(sb, rmTab)
    \/ \E u \in {1, 2} : RPopstate(u)
    \/ RStructTimer
    \/ RReinjectTimer
    \/ RSchedTimer
    \/ RLoopResume

SpecR == InitR /\ [][NextR]_vars

(***************************************************************************)
(* The navigation channels of content.js (SpecU): the patched              *)
(* history.pushState / replaceState, the popstate listener and the         *)
(* document observer each clear urlChangeTimeout and set a new timer; the  *)
(* timers are kept as the browser keeps them, by id.                       *)
(***************************************************************************)
\* navigation signals of one behaviour
MaxSignals == 4

\* clearTimeout(urlChangeTimeout): the timer of that id, if still pending
\* (the id of a timer that has fired, and null, clear nothing)
clearTimeout(timers, id) == {t \in timers : t.id # id}

\* urlChangeTimeout = setTimeout(() => handleUrlChange(url), ...); url 0:
\* the callback reads location.href when it runs
SetUrlTimer(url) ==
    /\ uTimers' = clearTimeout(uTimers, uTimeoutId) \cup {[id |-> uSignals + 1, url |-> url]}
    /\ uTimeoutId' = uSignals + 1
    /\ uSignals' = uSignals + 1

InitU ==
    /\ LIdle /\ XIdle /\ FIdle /\ WIdle /\ SIdle /\ RIdle /\ DIdle
    /\ \E u \in NavUrls :
          LET M == [Cur EXCEPT !.loaded = TRUE, !.href = u, !.firstUrl = u, !.lastUrl = u]
          IN  uM = After(IF shouldInitialize(Href(u)) THEN initializeExtractor(M) ELSE M)
    /\ uTimers = {} /\ uTimeoutId = 0
    /\ uSignals = 0 /\ uBurst = 0 /\ uFires = 0 /\ uActs = 0

\* the page calls history.pushState or history.replaceState (patched); pop:
\* the user goes back or forward (popstate)
UNavigate(u, pop) ==
    /\ uSignals < MaxSignals
    /\ pop => u # uM.href
    /\ uM' = [uM EXCEPT !.href = u]
    /\ SetUrlTimer(0)
    /\ IF u # uM.href
       THEN uBurst' = 1 /\ uFires' = 0 /\ uActs' = 0
       ELSE uBurst' = uBurst + 1 /\ UNCHANGED <<uFires, uActs>>
    /\ UNCHANGED <<xvars, lvars, fvars, wvars, svars, rvars, dvars>>

\* the document changes: the MutationObserver callback of content.js
UMutation ==
    /\ uSignals < MaxSignals
    /\ IF uM.href # uM.lastUrl
       THEN SetUrlTimer(uM.href) /\ uBurst' = uBurst + 1
       ELSE uSignals' = uSignals + 1 /\ UNCHANGED <<uTimers, uTimeoutId, uBurst>>
    /\ UNCHANGED <<uM, uFires, uActs, xvars, lvars, fvars, wvars, svars, rvars, dvars>>

\* a pending timer fires: handleUrlChange(location.href) or handleUrlChange(url)
UFire(t) ==
    /\ t \in uTimers
    /\ uTimers' = uTimers \ {t}
    /\ LET N == handleUrlChange(uM, IF t.url = 0 THEN uM.href ELSE t.url)
       IN  /\ uM' = After(N)
           /\ uActs' = IF After(N) # uM THEN uActs + 1 ELSE uActs
    /\ uFires' = uFires + 1
    /\ UNCHANGED <<uTimeoutId, uSignals, uBurst, xvars, lvars, fvars, wvars, svars, rvars, dvars>>

\* tryInitialize of handleUrlChange, as in the lifecycle
UTryInitialize(k, hasContent) ==
    /\ k \in 1..Len(uM.tryTimers)
    /\ LET rest == [j \in 1..(Len(uM.tryTimers) - 1) |->
                        IF j < k THEN uM.tryTimers[j] ELSE uM.tryTimers[j + 1]]
           N == IF hasContent \/ uM.tryTimers[k] >= maxRetries
                THEN initializeExtractor([uM EXCEPT !.tryTimers = rest,
                                                    !.resetTimers = @ + 1])
                ELSE [uM EXCEPT !.tryTimers[k] = @ + 1]
       IN  ~N.overflow /\ uM' = After(N)
    /\ UNCHANGED <<uTimers, uTimeoutId, uSignals, uBurst, uFires, uActs,
                   xvars, lvars, fvars, wvars, svars, rvars, dvars>>

\* setTimeout(() => { initializationInProgress = false }, 2000)
UResetTimer ==
    /\ uM.resetTimers > 0
    /\ uM' = [uM EXCEPT !.resetTimers = @ - 1, !.initializationInProgress = FALSE]
    /\ UNCHANGED <<uTimers, uTimeoutId, uSignals, uBurst, uFires, uActs,
                   xvars, lvars, fvars, wvars, svars, rvars, dvars>>

NextU ==
    \/ \E u \in NavUrls, pop \in BOOLEAN : UNavigate(u, pop)
    \/ UMutation
    \/ \E t \in uTimers : UFire(t)
    \/ \E k \in 1..MaxSignals, hasContent \in BOOLEAN : UTryInitialize(k, hasContent)
    \/ UResetTimer

SpecU == InitU /\ [][NextU]_vars

(***************************************************************************)
(* The DOM duration extractor (SpecD): one call of                         *)
(* extractChaptersFromTimestamps on a page, with the calls it makes kept   *)
(* on a stack.  The page: the duration text strategies 1 to 4 of           *)
(* extractDuration find (0: none), and the elements whose text is a time   *)
(* (text 1 or 2), each in a chapter area or not, with 'ago' or another     *)
(* duration word in the text of its parent or not.                         *)
(***************************************************************************)
\* elements whose text is a time
MaxTimeEls == 2
\* the frames the engine's stack holds; a further call throws RangeError
StackLimit == 8

TimeEls == [text : {1, 2}, chapter : BOOLEAN, ago : BOOLEAN, ctx : BOOLEAN]
Pages == [duration : 0..2, els : UNION {[1..n -> TimeEls] : n \in 0..MaxTimeEls}]

Frame(fn, at, val, kept) == [fn |-> fn, at |-> at, val |-> val, kept |-> kept]
Top == dStack[Len(dStack)]
Pop == SubSeq(dStack, 1, Len(dStack) - 1)
\* the running frame becomes f and calls g
Call(f, g) ==
    IF Len(dStack) >= StackLimit
    THEN dStack' = <<>> /\ dOut' = "RangeError"
    ELSE dStack' = Pop \o <<f, g>> /\ UNCHANGED dOut
MaxOf(S) == CHOOSE m \in S : \A n \in S : n <= m
MinOf(S) == CHOOSE m \in S : \A n \in S : m <= n

InitD ==
    /\ LIdle /\ XIdle /\ FIdle /\ WIdle /\ SIdle /\ RIdle /\ UIdle
    /\ dPage \in Pages /\ dStack = <<>>
    /\ dRet = 0 /\ dAns = FALSE /\ dOut = "idle"

\* extractChaptersFromTimestamps is called: const videoDuration = this.extractDuration()
DStart ==
    /\ dOut = "idle"
    /\ dStack' = <<Frame("chapters", 0, 0, {}), Frame("duration", 0, 0, {})>>
    /\ dOut' = "running"
    /\ UNCHANGED <<dPage, dRet, dAns, xvars, lvars, fvars, wvars, svars, rvars, uvars>>

\* extractChaptersFromTimestamps goes on after a call has returned: the next
\* element whose time is not videoDuration is put to isVideoDuration
DChapters ==
    /\ dStack # <<>> /\ Top.fn = "chapters"
    /\ LET dur == IF Top.at = 0 THEN dRet ELSE Top.val
           J   == {j \in (Top.at + 1)..Len(dPage.els) : dPage.els[j].text # dur}
       IN  IF J = {}
           THEN dStack' = Pop /\ dOut' = "returned"
           ELSE Call(Frame("chapters", MinOf(J), dur, {}),
                     Frame("isVideo", MinOf(J), 0, {}))
    /\ UNCHANGED <<dPage, dRet, dAns, xvars, lvars, fvars, wvars, svars, rvars, uvars>>

\* isVideoDuration(timestamp, fullText): first const duration =
\* this.extractDuration(), then the comparison and the context words
DIsVideo ==
    /\ dStack # <<>> /\ Top.fn = "isVideo"
    /\ IF Top.val = 0
       THEN /\ Call(Frame("isVideo", Top.at, 1, {}), Frame("duration", 0, 0, {}))
            /\ UNCHANGED dAns
       ELSE /\ dStack' = Pop
            /\ dAns' = \/ dRet = dPage.els[Top.at].text
                       \/ dPage.els[Top.at].ago \/ dPage.els[Top.at].ctx
            /\ UNCHANGED dOut
    /\ UNCHANGED <<dPage, dRet, xvars, lvars, fvars, wvars, svars, rvars, uvars>>

\* extractDuration: strategies 1 to 4, then the last resort over the time
\* elements; isTimestamp is 'ago' in the parent's text or else the answer of
\* isVideoDuration
DDuration ==
    /\ dStack # <<>> /\ Top.fn = "duration"
    /\ IF dPage.duration # 0
       THEN dStack' = Pop /\ dRet' = dPage.duration /\ UNCHANGED dOut
       ELSE LET kept == IF Top.at # 0 /\ ~dPage.els[Top.at].chapter /\ ~dAns
                        THEN Top.kept \cup {dPage.els[Top.at].text} ELSE Top.kept
                J    == {j \in (Top.at + 1)..Len(dPage.els) : ~dPage.els[j].ago}
            IN  IF J = {}
                THEN /\ dStack' = Pop /\ UNCHANGED dOut
                     /\ dRet' = IF kept = {} THEN 0 ELSE MaxOf(kept)
                ELSE /\ Call(Frame("duration", MinOf(J), 0, kept),
                             Frame("isVideo", MinOf(J), 0, {}))
                     /\ UNCHANGED dRet
    /\ UNCHANGED <<dPage, dAns, xvars, lvars, fvars, wvars, svars, rvars, uvars>>

NextD ==
    \/ DStart
    \/ DChapters
    \/ DIsVideo
    \/ DDuration

SpecD == InitD /\ [][NextD]_vars

(***************************************************************************)
(* Properties of the pure functions                                        *)
(***************************************************************************)
\* The supported URL shapes, in the order they are tried: the text before
\* the identifier and the text that must follow it
Shapes == << <<SVideo, SView>>, <<SVideo, <<>> >>, <<SStories, <<>> >>, <<SWatch, <<>> >> >>

\* url[b..e] is an identifier: a non-empty run of letters and digits that no
\* letter or digit follows
IsIdentifier(url, b, e) ==
    /\ b <= e /\ e <= Len(url)
    /\ \A i \in b..e : url[i] \in AlnumChars
    /\ e = Len(url) \/ url[e + 1] \notin AlnumChars

\* the positions of url where shape k stands
ShapePositions(url, k) ==
    {p \in 1..Len(url) :
        /\ OccursAt(url, Shapes[k][1], p)
        /\ \E e \in p..Len(url) :
              /\ IsIdentifier(url, p + Len(Shapes[k][1]), e)
              /\ OccursAt(url, Shapes[k][2], e + 1)}

\* id is the identifier of the leftmost occurrence of shape k in url
IdentifierOf(url, k, id) ==
    LET p == Min(ShapePositions(url, k))
        b == p + Len(Shapes[k][1])
    IN  \E e \in b..Len(url) : IsIdentifier(url, b, e) /\ id = SubSeq(url, b, e)

\* C13: extractStoryId returns the identifier of the first shape, in the
\* order /video/{id}/view, /video/{id}, /stories/{id}, /watch/{id}, that the
\* URL contains, and null when it contains none of them.
C13_StoryIdOfFirstShape ==
    (fOp = "extractStoryId" /\ fpc = "out")
        => LET found == {k \in 1..Len(Shapes) : ShapePositions(fIn, k) # {}}
           IN  IF found = {} THEN fOut = JNull
               ELSE /\ fOut.t = "str"
                    /\ IdentifierOf(fIn, Min(found), fOut.v)

\* extractStoryId has returned ab for /video/ab/view
C13_Reached ==
    /\ fOp = "extractStoryId" /\ fpc = "out"
    /\ fIn = Origin \o SVideo \o <<"a">> \o <<"b">> \o SView
    /\ fOut = JStr(<<"a", "b">>)

\* r is Math.floor(n / d)
IsFloor(r, n, d) == r * d <= n /\ n < (r + 1) * d

\* the rule of duration normalization for the number n / d
DurationRule(out, n, d) ==
    IF n <= 0 THEN out = JNull
    ELSE IF n <= 10000 * d THEN out.t = "num" /\ IsFloor(out.v, n, d)
    ELSE out.t = "num" /\ IsFloor(out.v, n, 1000 * d)

\* the conversions the documentation gives
DurationExamples ==
    {<<JNum(45), JNum(45)>>, <<JNum(45000), JNum(45)>>, <<JNum(9999), JNum(9999)>>,
     <<JNum(10000), JNum(10000)>>, <<JNum(10001), JNum(10)>>,
     <<JNum(0), JNull>>, <<JNum(-1), JNull>>}

\* the number formatDuration reads from its argument: the number itself, the
\* leading digits of a string, the duration field of an object
DurationOperand(x) ==
    CASE IsNumber(x) -> x
      [] x.t = "str" /\ x.v # <<>> /\ Head(x.v) \in Digit -> ParseFloat(x.v)
      [] x.t = "obj" /\ IsNumber(Get(x, "duration")) -> Get(x, "duration")
      [] OTHER -> JNull

C16_PruneIdempotent ==
    [][/\ (fOp = "cleanObject" /\ fpc = "out" /\ fpc' = "again") => fOut' = fOut
       /\ (fOp = "cleanObject" /\ fpc = "in" /\ fpc' = "out" /\ fIn = PruneExample)
             => fOut' = JObj([d |-> JNum(0), e |-> JStr(<<>>)])]_vars

\* the record {b: {b: {a: null}}}, whose objects empty one after the other,
\* has been pruned twice
C16_Reached ==
    /\ fOp = "cleanObject" /\ fpc = "again"
    /\ fIn = JObj([b |-> JObj([b |-> JObj([a |-> JNull])])])
    /\ fOut = EmptyObj

(***************************************************************************)
(* Properties of one run                                                   *)
(***************************************************************************)
\* C1: whenever the structured path has yielded no record (no story id, a
\* failed document fetch, a normalization that threw), extractAllData has
\* resolved, not rejected, with a record whose extractionMethod is 'dom'.
C1_FallbackToDom ==
    (xpc = "done" /\ ~Truthy(xApi))
        => /\ xResult.kind = "resolved"
           /\ Get(xResult.value, "extractionMethod") = JStr(SDom)

\* C2: with a story id, extractFromAPI returns null when the document fetch
\* failed, and returns a record when the document fetch gave an object,
\* whatever the transcription endpoint answered.
C2_ApiResult ==
    (xpc \in {"dom", "done"} /\ Truthy(xExt.storyId))
        => /\ xDocOut.kind # "ok" => ~Truthy(xApi)
           /\ (xDocOut.kind = "ok" /\ xDocOut.body.t = "obj") => Truthy(xApi)

\* the value the record holds for a field whose extractor returned x
FieldOf(x) == IF x.t \in {"null", "undef"} THEN Undefined ELSE x

\* C12: in the DOM fallback every extractor fails on its own: whatever the
\* page shows, extractAllData resolves, the record holds the title exactly
\* when extractTitle found one, holds pageUrl, and leaves createdDate out when
\* the page has no date or an unparsable one.
C12_FieldsIndependent ==
    (xpc = "done" /\ ~Truthy(xApi))
        => /\ xResult.kind = "resolved"
           /\ Get(xResult.value, "title") = FieldOf(extractTitle(xDom))
           /\ Get(xResult.value, "pageUrl") = JStr(Href(xHref))
           /\ xDom.date \in {"none", "timeInvalid", "metaInvalid"}
                 => Get(xResult.value, "createdDate") = Undefined

\* x is, or holds at some depth (inside objects and arrays), a null, an
\* undefined or an empty object
RECURSIVE HasNullLeaf(_)
HasNullLeaf(x) ==
    CASE x.t \in {"null", "undef"} -> TRUE
      [] x.t = "obj" -> DOMAIN x.v = {} \/ \E k \in DOMAIN x.v : HasNullLeaf(x.v[k])
      [] x.t = "arr" -> \E i \in 1..Len(x.v) : HasNullLeaf(x.v[i])
      [] OTHER -> FALSE

\* C15: the record parseDocumentData returned holds no null, undefined or
\* empty object at any depth, the entries of content.chapters included, and
\* still holds the views (0 included) and the description ("" included).
C15_FullyPruned ==
    Truthy(xApi)
        => /\ ~HasNullLeaf(xApi)
           /\ Get(Get(xApi, "video"), "views").t = "num"
           /\ Get(Get(xApi, "video"), "description").t = "str"

\* C17: for the words Hello, secret (hidden), world the transcript of the
\* record is "Hello world" and its transcriptWordCount is 2, the number of
\* the words the transcript is made of.
C17_CountsVisibleWords ==
    LET transcription == Get(Get(xApi, "content"), "transcription")
    IN  (Truthy(xApi) /\ Get(transcription, "transcriptionWords") = SampleWords)
            => /\ Get(transcription, "transcript") = JStr(<<"H","e","l","l","o"," ","w","o","r","l","d">>)
               /\ Get(transcription, "transcriptWordCount") = JNum(2)

\* the record without its extractedAt (of the metadata group or top level)
WithoutExtractedAt(r) ==
    LET drop(o) == JObj([k \in DOMAIN o.v \ {"extractedAt"} |-> o.v[k]])
        top == IF r.t = "obj" THEN drop(r) ELSE r
    IN  IF Get(top, "metadata").t = "obj"
        THEN Put(top, "metadata", drop(Get(top, "metadata")))
        ELSE top

\* C18: a second call of extractAllData on the same URL, with the same
\* answers of the endpoints and no navigation in between, settles as the
\* first did, with a record equal to the first in all but extractedAt.
C18_SecondRunEqual ==
    (xRun > 1 /\ xpc = "done")
        => /\ xResult.kind = xFirst.kind
           /\ WithoutExtractedAt(xResult.value) = WithoutExtractedAt(xFirst.value)

\* C19: the metadata group of every record extractAllData resolved with
\* names how the record was produced: 'dom' on the fallback path, 'api+dom'
\* when a DOM-scraped transcript was added to the API record, 'api' when the
\* API record was returned as it was.
C19_MethodInMetadata ==
    (xpc = "done" /\ xResult.kind = "resolved")
        => Get(Get(xResult.value, "metadata"), "extractionMethod")
             = IF ~Truthy(xApi) THEN JStr(SDom)
               ELSE IF xResult.value # xApi THEN JStr(<<"a","p","i","+","d","o","m">>)
               ELSE JStr(<<"a","p","i">>)

\* C24: whatever the transcriptions endpoint answered, a document that can
\* be normalized on its own gives an API record; its transcription group
\* holds the flat `words` array when there is one, else the array at
\* transcriptions[1][0].words, and no transcript fields when neither exists.
C24_WordsLocatedOrAbsent ==
    LET td == FetchJson(xTrOut)
        nested == Get(td, "transcriptions")
        transcription == Get(Get(xApi, "content"), "transcription")
    IN  (/\ xpc \in {"dom", "done"}
         /\ Truthy(xDocData)
         /\ ~Threw(parseDocumentData(xDocData, JNull, xExt.storyId, Href(xHref), Clock(xRun))))
            => /\ Truthy(xApi)
               /\ Get(transcription, "transcriptionWords")
                    = IF IsArray(Get(td, "words")) THEN Get(td, "words")
                      ELSE IF nested = JArr(<<JStr(<<"o","k">>), JArr(<<JObj([words |-> SampleWords])>>)>>)
                      THEN SampleWords
                      ELSE Undefined

\* C25: a call of extractAllData issues the document GET at most once and
\* then the transcriptions GET at most once, nothing else; the transcriptions
\* GET only when the document fetch gave data, and an API record exists only
\* after both fetches have settled.
C25_TwoGetsInOrder ==
    /\ xGets \in {<<>>, <<"document">>, <<"document", "transcriptions">>}
    /\ ~Truthy(xExt.storyId) => xGets = <<>>
    /\ xpc = "doc" => xGets = <<"document">>
    /\ xpc = "tr" => xGets = <<"document", "transcriptions">>
    /\ Len(xGets) = 2
         => /\ xpc \in {"tr", "dom", "done"}
            /\ xDocOut.kind = "ok" /\ Truthy(xDocOut.body)
            /\ xDocData = xDocOut.body
    /\ Truthy(xApi) => (Len(xGets) = 2 /\ xpc \in {"dom", "done"})

\* the second call on a page has fetched both payloads again and built its
\* API record
C25_Reached ==
    /\ xRun = 2 /\ xpc = "done"
    /\ xGets = <<"document", "transcriptions">>
    /\ Truthy(xApi)
    /\ xTrOut.kind = "ok"

(***************************************************************************)
(* Properties of the delivery                                             *)
(***************************************************************************)
\* C20: handleSendToWebhook never rejects; it resolves with success = true
\* and the HTTP status exactly when the POST was answered with a 2xx
\* status, otherwise with success = false, an error text and originalError
\* equal to the message of the error it caught; the listener answers a
\* sendToWebhook message once, with that object.
C20_DeliveryAnswered ==
    /\ wPromise.kind # "rejected"
    /\ wPromise.kind = "resolved"
         => LET r == wPromise.value
            IN  IF wPosts = 1 /\ wNet.kind = "response" /\ wNet.status \in 200..299
                THEN r.success /\ r.status = wNet.status
                ELSE /\ ~r.success
                     /\ r.error # <<>>
                     /\ r.originalError = wThrown
                     /\ (wPosts = 1 /\ wNet.kind = "error") => r.originalError = wNet.message
                     /\ (wPosts = 1 /\ wNet.kind = "response")
                          => Includes(r.originalError, NumToStr(wNet.status))
    /\ Len(wResponses) <= 1
    /\ wpc = "answered" => wResponses = <<wPromise.value>>
    /\ (wReq.action = "sendToWebhook" /\ wpc \notin {"received", "fetching", "settled"})
         => wpc = "answered"

\* a 404 answer has been reported to the caller: a friendly text and the
\* technical message next to it
C20_Reached ==
    /\ wpc = "answered" /\ wNet.kind = "response" /\ wNet.status = 404
    /\ Len(wResponses) = 1
    /\ ~wResponses[1].success
    /\ wResponses[1].originalError = HttpErrorMessage(404, wNet.statusText, wNet.body)
    /\ wResponses[1].error # wResponses[1].originalError

(***************************************************************************)
(* Properties of the webhook panel                                         *)
(***************************************************************************)
\* C21: every message handed to the background script for delivery names a
\* webhook URL whose scheme is https.
C21_OnlyHttpsSent ==
    \A i \in 1..Len(sSent) : UrlProtocol(sSent[i].url) = JStr(<<"h","t","t","p","s",":">>)

\* C22: a load whose storage calls went through leaves the URL in memory
\* equal to the stored flat URL - the stored one unchanged when there was
\* one, the baseUrl of the legacy config written back otherwise - and leaves
\* no webhookConfig key in storage.
C22_LegacyKeyGone ==
    [][/\ (spc = "load.get" /\ spc' = "ready" /\ sUrl' # <<>>)
            => /\ sUrl' = sStore.webhookUrl /\ sStore' = sStore
               /\ ~sStore'.webhookConfig.present
       /\ (spc = "load.remove" /\ spc' = "ready" /\ sStore' # sStore)
            => /\ sUrl' = sStore.webhookConfig.baseUrl
               /\ sStore'.webhookUrl = sUrl'
               /\ ~sStore'.webhookConfig.present]_vars

\* the lines of a chaptersMd text
RECURSIVE SplitLines(_)
SplitLines(t) ==
    IF \E p \in 1..Len(t) : t[p] = "\n"
    THEN LET p == CHOOSE q \in 1..Len(t) : t[q] = "\n" /\ \A r \in 1..(q - 1) : t[r] # "\n"
         IN  <<SubSeq(t, 1, p - 1)>> \o SplitLines(SubSeq(t, p + 1, Len(t)))
    ELSE <<t>>

\* the line starts with '- MM:SS ' (two digits, a colon, two digits)
HasMinutesSeconds(line) ==
    /\ Len(line) >= 8
    /\ line[1] = "-" /\ line[2] = " "
    /\ line[3] \in Digit /\ line[4] \in Digit /\ line[5] = ":"
    /\ line[6] \in Digit /\ line[7] \in Digit /\ line[8] = " "

\* C23: the payload of every message sent is the extracted record with
\* content.chaptersMd added and nothing else changed; chaptersMd is empty
\* without chapters and has otherwise one line per chapter, in order, of the
\* form '- MM:SS Title' or '- MM:SS Title - Description'.
C23_PayloadWithChaptersMd ==
    \A i \in 1..Len(sSent) :
        LET rec == sSent[i].of
            payload == sSent[i].data
            content == Or(Get(rec, "content"), EmptyObj)
            chapters == Or(Get(content, "chapters"), JArr(<<>>))
            md == Get(Get(payload, "content"), "chaptersMd")
        IN  /\ md.t = "str"
            /\ DOMAIN payload.v = DOMAIN rec.v \cup {"content"}
            /\ \A k \in DOMAIN rec.v \ {"content"} : payload.v[k] = rec.v[k]
            /\ DOMAIN Get(payload, "content").v = DOMAIN content.v \cup {"chaptersMd"}
            /\ \A k \in DOMAIN content.v : Get(payload, "content").v[k] = content.v[k]
            /\ rec = sData
            /\ IF Len(chapters.v) = 0 THEN md.v = <<>>
               ELSE LET lines == SplitLines(md.v)
                    IN  /\ Len(lines) = Len(chapters.v)
                        /\ \A j \in 1..Len(lines) :
                              /\ HasMinutesSeconds(lines[j])
                              /\ Includes(lines[j], Or(Get(chapters.v[j], "title"), JStr(<<>>)).v)
                              /\ Truthy(Get(chapters.v[j], "description"))
                                    <=> Includes(SubSeq(lines[j], 9, Len(lines[j])), <<" ","-"," ">>)

(***************************************************************************)
(* Properties of the navigation channels                                   *)
(***************************************************************************)
\* C27: the three navigation channels share one debounce timer: at most one
\* URL-change timer is pending at any time, it is the one urlChangeTimeout
\* names, and between two changes of location.href handleUrlChange acts at
\* most once, however many signals and timer firings there are.
C27_OneDebouncedHandler ==
    /\ Cardinality(uTimers) <= 1
    /\ \A t \in uTimers : t.id = uTimeoutId
    /\ uActs <= 1
    /\ uM.inj # <<>> => (uActs = 1 => uM.lastUrl = uM.href)

\* one change of the URL was signalled three times and the timer fired twice
\* for it; the handler acted on the first firing only
C27_Reached ==
    /\ uBurst >= 3 /\ uFires = 2 /\ uActs = 1 /\ uTimers = {}
    /\ uM.tryTimers = <<>> /\ uM.resetTimers = 0 /\ ~uM.initializationInProgress
    /\ uM.extractor # <<>>

(***************************************************************************)
(* Properties of the duration extractor                                    *)
(***************************************************************************)
\* C29: on every page extractDuration and isVideoDuration return after
\* finitely many calls: the calls they make of each other never fill the
\* stack, so a call of extractChaptersFromTimestamps never ends in a
\* RangeError.
C29_ExtractorReturns == dOut # "RangeError"

(***************************************************************************)
(* Properties of the retry loop                                            *)
(***************************************************************************)
\* C26: one run of findAndInjectSidebar makes at most maxAttempts detection
\* attempts, whatever callbacks fire while it waits between attempts, and
\* isInjecting is false whenever no run is under way.
C26_BoundedRetry ==
    /\ rTries <= maxAttempts
    /\ rM.inj # <<>> => (rM.inj[1].loop = "idle" => ~rM.inj[1].isInjecting)

(***************************************************************************)
(* Properties of sendRuntimeMessage                                        *)
(***************************************************************************)
\* C28: the promise of sendRuntimeMessage is settled at most once, by the
\* response callback or by the timeout, whichever runs first: while it is
\* pending the timer is armed; settled from a response, the timer has been
\* cleared; rejected by the timeout, it stays so when the response comes late.
C28_SettlesOnce ==
    /\ sSettles <= 1
    /\ sPromise.kind = "pending" => (sTimer = "armed" /\ sSettles = 0 /\ ~sResolved)
    /\ sTimer = "armed" => sPromise.kind = "pending"
    /\ sPromise.by \in Answers =>
          /\ sTimer = "cleared" /\ sCallback = "called" /\ sSettles = 1
          /\ sPromise.kind = IF sPromise.by \in {"success", "failure"}
                             THEN "resolved" ELSE "rejected"
    /\ sPromise.by = "timeout" =>
          sTimer = "fired" /\ sPromise.kind = "rejected" /\ sSettles = 1

\* the timeout has rejected the promise and the response came afterwards
C28_Reached ==
    /\ sPromise = [kind |-> "rejected", by |-> "timeout"]
    /\ sTimer = "fired" /\ sCallback = "called" /\ sSettles = 1

(***************************************************************************)
(* Properties of a destroyed injector                                      *)
(***************************************************************************)
\* C30: an injector on which destroy() has been called creates no webhook
\* tab or panel afterwards: no step adds an element to the ones a destroyed
\* instance has made.
C30_DestroyedStaysOut ==
    [][\A i \in 1..MaxInj : inj[i].destroyed => inj'[i].made \subseteq inj[i].made]_vars

(***************************************************************************)
(* Properties of the page lifecycle                                        *)
(***************************************************************************)
\* the instances whose findAndInjectSidebar loop is running
Injecting == {i \in 1..MaxInj : inj[i].isInjecting}
\* the instances destroy() was called on
Destroyed == {i \in 1..MaxInj : inj[i].destroyed}

\* C3: once the navigation to another page has been handled (lastUrl is the
\* current URL), no step stores in window.tellaExtractedData a record that an
\* extraction started on a different page has produced.
C3_StaleResultDiscarded ==
    [][(/\ tellaExtractedData' # tellaExtractedData
        /\ tellaExtractedData' # <<>>
        /\ lastUrl' = href')
          => tellaExtractedData'[1].u = href']_vars

\* C4: at most one extraction and at most one injection loop is in flight:
\* two runs of extractAllData never overlap, nor do two findAndInjectSidebar
\* loops.
C4_OneAttemptInFlight ==
    /\ Len(runs) <= 1
    /\ Cardinality(Injecting) <= 1

\* C5: a run whose only event is one navigation from a qualifying page to
\* another qualifying page sees at most one destroy(), at most one tab
\* injected after the one of the first page, and never two injection loops
\* at once.
C5_OneTeardownOneReinjection ==
    (/\ navs = 1 /\ hostMuts = 0 /\ userActs = 0
     /\ shouldInitialize(Href(firstUrl)) /\ shouldInitialize(Href(href)))
        => /\ Cardinality(Destroyed) <= 1
           /\ nextEl - 1 <= 2
           /\ Cardinality(Injecting) <= 1

\* C6: the document never holds more than one injected tab nor more than one
\* injected panel.
C6_NoDuplicateUi ==
    /\ Cardinality(tabs) <= 1
    /\ Cardinality(panels) <= 1

\* C7: an instance destroy() was called on has nothing left: no connected
\* observer, no popstate listener, no pending timer, none of its elements in
\* the document, no cached reference.
C7_TeardownComplete ==
    \A i \in Destroyed :
        /\ ~inj[i].navObserver /\ ~inj[i].popstate
        /\ inj[i].structLive = 0 /\ inj[i].tabObs = 0
        /\ ~inj[i].structureChangeTimeout /\ ~inj[i].reinjectTimeout
        /\ inj[i].sched = 0
        /\ inj[i].made \cap (tabs \cup panels) = {}
        /\ inj[i].webhookTab = 0 /\ inj[i].webhookPanel = 0
        /\ ~inj[i].sidebarContainer

\* C8: a step schedules findAndInjectSidebar for an instance only if its tab
\* is missing from the document or the URL changed between two qualifying
\* pages; never on a change from or to a page that does not qualify.
C8_ReinjectOnlyWhenJustified ==
    [][\A i \in 1..MaxInj :
          inj'[i].sched > inj[i].sched
            => \/ inj[i].webhookTab # 0 /\ inj[i].webhookTab \notin tabs
               \/ /\ inj[i].lastObservedUrl \notin {0, href'}
                  /\ shouldInitialize(Href(inj[i].lastObservedUrl))
                  /\ shouldInitialize(Href(href'))]_vars

\* every timer of the content script has fired and every extraction settled
Settled ==
    /\ urlChangeTimeout = -1 /\ tryTimers = <<>> /\ resetTimers = 0
    /\ runs = <<>>

\* C9: when the page has navigated, stands on a qualifying URL and all timers
\* have fired, the tracker holds an extractor, and its story id is the id in
\* that URL.
C9_BoundToCurrentVideo ==
    (loaded /\ navs >= 1 /\ Settled /\ shouldInitialize(Href(href)))
        => /\ extractor # <<>>
           /\ extractor[1].storyId = extractStoryId(Href(href))

\* C11: a step that builds an extractor for a URL no story id can be derived
\* from starts nothing: the extractor's isRecordingPage is true only if the
\* URL carries a page marker, no injector is created, no indicator added and
\* no extraction started.
C11_NoIdNoPipeline ==
    [][(extractor' # extractor /\ extractor' # <<>> /\ ~Truthy(extractor'[1].storyId))
          => /\ extractor'[1].isRecordingPage
                  => \/ Includes(Href(href'), SWatch)
                     \/ Includes(Href(href'), SRecordings)
                     \/ Includes(Href(href'), SVideo)
             /\ nextInj' = nextInj
             /\ indicators' <= indicators
             /\ Len(runs') <= Len(runs)]_vars

\* C10: on /video/{id} without /view no step creates an extractor or an
\* injector, adds the indicator or starts an extraction.
C10_NoActivationWithoutView ==
    [][(Includes(Href(href'), SVideo) /\ ~shouldInitialize(Href(href')))
          => /\ extractor' # extractor => extractor' = <<>>
             /\ nextInj' = nextInj
             /\ indicators' <= indicators
             /\ Len(runs') <= Len(runs)]_vars

====
